---- MODULE Spec2Model ----
(***************************************************************************)
(* GitHubSync: the server routes of server/routes.ts over the storage      *)
(* layer of server/storage.ts, and the upload panel of the client          *)
(* (file-upload-panel.tsx).  Route handlers and panel handlers are async   *)
(* code that runs without interruption between two awaits or callbacks,    *)
(* so an action below is the code between two such points.                 *)
(***************************************************************************)
EXTENDS Integers, Sequences, FiniteSets, TLC

\* ---------------------------------------------------------------- bounds
NumRequests == 2        \* requests the server can hold in flight together
MaxFiles == 3           \* longest files array of a batch request
MaxLedger == 1          \* a signed-in storing request is admitted while storage holds fewer rows
MaxListing == 1         \* most repositories the store lists for a user
MaxQueue == 2           \* a selection is taken while the upload queue holds fewer files
MaxNotices == 2         \* an archive is taken while fewer notices have been raised
MaxRows == 2            \* most ledger rows when the storage object is called directly
MaxInFlight == 2        \* longest batch among requests that interleave

\* ---------------------------------------------------------------- inputs
Requests == 1..NumRequests
undefined == "undefined"                \* a field the JSON body does not carry
users == {1, 2}                         \* ids of the rows of the users table
SessionUserIds == {0, 1, 2, 3}          \* 0: the session carries no userId; 3: no such row
PathList == <<"readme.md", "src/index.ts", "docs/guide.md", "LICENSE">>
Paths == {PathList[i] : i \in 1..2}
Contents == {<<81, 85>>}                \* base64 text, as its character codes
BranchInputs == {undefined, "dev"}
ShaInputs == {undefined, "abc123"}
MessageInputs == {undefined}

\* req.body.files: either not an array at all, or an array of 0..MaxFiles
\* payloads {path, content, sha?}; the caller names the current hash of the
\* paths that exist in the store, which are every second one
ShaOf(i) == IF i % 2 = 0 THEN "abc123" ELSE undefined
FilesInputs ==
    {[isArray |-> FALSE, items |-> <<>>]}
        \cup {[isArray |-> TRUE,
               items |-> [i \in 1..n |-> [path |-> PathList[i], content |-> c,
                                          sha |-> ShaOf(i)]]]
                : n \in 0..MaxFiles, c \in Contents}

\* ------------------------------------------------- upload panel inputs
\* a string that is a path: its names and the "/" between them, in order;
\* <<>> is the empty string
JoinPath(path, name) == IF path # <<>> THEN path \o <<"/", name>> ELSE <<name>>

FileEntry(name) == [name |-> name, isFile |-> TRUE]
DirectoryEntry(name) == [name |-> name, isFile |-> FALSE]

\* the directories the user can drop or pick, each under the names that
\* lead to it, with the entries its reader delivers
Folders ==
    (<<"proj">> :> <<DirectoryEntry("a"), FileEntry("top.txt")>>)
        @@ (<<"proj", "a">> :> <<FileEntry("b.txt"), DirectoryEntry("c"),
                                 DirectoryEntry("e")>>)
        @@ (<<"proj", "a", "c">> :> <<FileEntry("d.txt")>>)
        @@ (<<"proj", "a", "e">> :> <<>>)
        @@ (<<"lib">> :> <<FileEntry("x.js")>>)
Directories == DOMAIN Folders
RootFolders == {q \in Directories : Len(q) = 1}

\* a File the browser hands over: a picked or dropped file has an empty
\* webkitRelativePath, a file of a picked folder has the path from the
\* picked folder's own name down to the file
NativeFile(name, webkitRelativePath) ==
    [name |-> name, webkitRelativePath |-> webkitRelativePath]
FileNames == <<"n.txt", "m.txt">>

\* e.target.files of the file input: null, or the files picked, in order
FileListInputs ==
    {[isNull |-> TRUE, items |-> <<>>]}
        \cup {[isNull |-> FALSE,
               items |-> [i \in 1..n |-> NativeFile(FileNames[i], <<>>)]]
                : n \in 0..Len(FileNames)}

\* e.dataTransfer.items of a drop
StringItem == [kind |-> "string", isFile |-> FALSE, name |-> "text"]
FileItem(name) == [kind |-> "file", isFile |-> TRUE, name |-> name]
DirectoryItem(name) == [kind |-> "file", isFile |-> FALSE, name |-> name]
DropInputs ==
    {<<>>, <<StringItem>>, <<FileItem("n.txt")>>,
     <<FileItem("n.txt"), FileItem("m.txt")>>,
     <<DirectoryItem("lib")>>, <<DirectoryItem("proj")>>,
     <<FileItem("n.txt"), DirectoryItem("proj")>>,
     <<DirectoryItem("lib"), DirectoryItem("proj")>>}

\* an entry of zipContent.files: its key, which is also zipEntry.name (once
\* as the string, once as the path it spells), whether it is a directory
\* marker, and whether zipEntry.async('arraybuffer') resolves
ZipEntry(name, relativePath, dir) ==
    [name |-> name, relativePath |-> relativePath, dir |-> dir, decodes |-> TRUE]
ArchiveListings ==
    {<<>>,
     <<ZipEntry("img.png", <<"img.png">>, FALSE),
       ZipEntry("notes.txt", <<"notes.txt">>, FALSE),
       ZipEntry("folder/", <<"folder", "/">>, TRUE)>>,
     <<ZipEntry("folder/", <<"folder", "/">>, TRUE),
       ZipEntry("folder/in.txt", <<"folder", "/", "in.txt">>, FALSE)>>}

\* what zip.loadAsync(file) finds in a file: no archive, or the entries of
\* one, of which at most one cannot be decoded
NotAnArchive == [isArchive |-> FALSE, files |-> <<>>]
ArchiveContents ==
    {NotAnArchive}
        \cup {[isArchive |-> TRUE,
               files |-> [i \in DOMAIN listing |->
                            [listing[i] EXCEPT !.decodes = (i # broken)]]]
                : listing \in ArchiveListings, broken \in 0..2}

\* e.target.files of the archive input: empty, or one file
ZipNames == {"site.zip"}
ZipInputs ==
    {[isEmpty |-> TRUE, name |-> "", content |-> NotAnArchive]}
        \cup {[isEmpty |-> FALSE, name |-> name, content |-> content]
                : name \in ZipNames \cup {"n.txt", "zip.txt"}, content \in ArchiveContents}

VARIABLES
    fileOperations,     \* the ledger: FileOperation rows in insertion order
    currentOpId,        \* next id of the file_operations serial
    clock,              \* the last value new Date() / now() returned
    repositories,       \* Repository rows in insertion order
    currentRepoId,      \* next id of the repositories serial
    pc,                 \* per request: the await the handler is suspended on
    req,                \* per request: route, session, body, outcome of the user lookup
    idx,                \* per request: position of the for-of loop (1-based)
    results,            \* per request: the results array of the batch handler
    errors,             \* per request: the errors array of the batch handler
    held,               \* per request: the store response the handler holds
    issued,             \* per request: bodies of the remote-store calls issued
    trace,              \* per request: history of remote calls and ledger inserts
    response,           \* per request: what res.status().json() sent
    storageCall,        \* the last call made on the storage object directly
    uploadFiles,        \* the upload panel: its queue of pending files
    toasts,             \* the upload panel: the notices it has raised
    drop,               \* the upload panel: the drop being handled
    reads,              \* per directory: the readDirectory call on it
    zip,                \* the upload panel: the archive being extracted
    uploadMutation      \* the upload panel: the mutation that submits the queue

vars == <<fileOperations, currentOpId, clock, repositories, currentRepoId,
          pc, req, idx, results, errors, held, issued, trace, response,
          storageCall, uploadFiles, toasts, drop, reads, zip, uploadMutation>>

storageVars == <<fileOperations, currentOpId, clock, repositories, currentRepoId>>
ledgerVars == <<fileOperations, currentOpId, clock>>
repoVars == <<repositories, currentRepoId>>
requestVars == <<pc, req, idx, results, errors, held, issued, trace, response>>
clientVars == <<uploadFiles, toasts, drop, reads, zip, uploadMutation>>

NoRequest == [route |-> "none", userId |-> 0, path |-> undefined,
              files |-> [isArray |-> FALSE, items |-> <<>>],
              content |-> <<>>, message |-> undefined,
              branch |-> undefined, sha |-> undefined, lookup |-> "none"]
NoResponse == [status |-> 0]
NoHeld == [kind |-> "none"]
NoCall == [method |-> "none"]
NoDrop == [phase |-> "none", items |-> <<>>, droppedFiles |-> <<>>,
           filePromises |-> {}, resolved |-> {}]
NoRead == [phase |-> "none", path |-> <<>>, delivered |-> 0, pending |-> 0,
           waiting |-> {}, files |-> <<>>, callbacks |-> 0]
NoMutation == [status |-> "idle", step |-> "none", files |-> <<>>,
               branch |-> "main", at |-> 0, filePayloads |-> <<>>]
NoZip == [phase |-> "none", extractZip |-> TRUE, name |-> "", file |-> NotAnArchive,
          at |-> 0, extractedFiles |-> <<>>, outcome |-> "none"]

\* the state after `new MemStorage()` / on an empty database
InitStorage ==
    /\ fileOperations = <<>>
    /\ currentOpId = 1
    /\ clock = 0
    /\ repositories = <<>>
    /\ currentRepoId = 1

\* no request received yet
InitRequests ==
    /\ req = [r \in Requests |-> NoRequest]
    /\ idx = [r \in Requests |-> 0]
    /\ results = [r \in Requests |-> <<>>]
    /\ errors = [r \in Requests |-> <<>>]
    /\ held = [r \in Requests |-> NoHeld]
    /\ issued = [r \in Requests |-> <<>>]
    /\ trace = [r \in Requests |-> <<>>]
    /\ response = [r \in Requests |-> NoResponse]
    /\ storageCall = NoCall

\* the upload panel as mounted: useState<UploadFile[]>([]), no notice raised
InitClient ==
    /\ uploadFiles = <<>>
    /\ toasts = <<>>
    /\ drop = NoDrop
    /\ reads = [q \in Directories |-> NoRead]
    /\ zip = NoZip
    /\ uploadMutation = NoMutation

\* the server handles one request at a time
Init ==
    /\ InitStorage
    /\ InitRequests
    /\ InitClient
    /\ pc = [r \in Requests |-> IF r = 1 THEN "idle" ELSE "off"]

\* NumRequests requests can be in flight together
InitConcurrent ==
    /\ InitStorage
    /\ InitRequests
    /\ InitClient
    /\ pc = [r \in Requests |-> "idle"]

\* two requests can be in flight together
InitPair ==
    /\ InitStorage
    /\ InitRequests
    /\ InitClient
    /\ pc = [r \in Requests |-> IF r <= 2 THEN "idle" ELSE "off"]

\* ------------------------------------------------------- storage layer
\* the row with `status: insertOperation.status` (the ?? "pending" forgotten)
FileOperationRow_noDefault(insertOperation, id, now) ==
    [id |-> id,
     userId |-> insertOperation.userId,
     repositoryId |-> insertOperation.repositoryId,
     operation |-> insertOperation.operation,
     filePath |-> insertOperation.filePath,
     branch |-> insertOperation.branch,
     status |-> insertOperation.status,
     metadata |-> insertOperation.metadata,
     createdAt |-> now]

\* the row createFileOperation stores for an InsertFileOperation
FileOperationRow(insertOperation, id, now) ==
    [id |-> id,
     userId |-> insertOperation.userId,
     repositoryId |-> insertOperation.repositoryId,
     operation |-> insertOperation.operation,
     filePath |-> insertOperation.filePath,
     branch |-> insertOperation.branch,
     status |-> IF insertOperation.status = undefined THEN "pending"
                ELSE insertOperation.status,
     metadata |-> insertOperation.metadata,
     createdAt |-> now]

\* createFileOperation with `const id = this.currentOpId` (the ++ forgotten)
createFileOperation_noIncrement(insertOperation) ==
    \E now \in {clock, clock + 1} :
        /\ fileOperations' = Append(fileOperations,
                                    FileOperationRow(insertOperation, currentOpId, now))
        /\ currentOpId' = currentOpId
        /\ clock' = now

\* createFileOperation with an id counted per user instead of the serial
createFileOperation_idPerUser(insertOperation) ==
    \E now \in {clock, clock + 1} :
        LET OfUser(op) == op.userId = insertOperation.userId
            id == Len(SelectSeq(fileOperations, OfUser)) + 1
        IN  /\ fileOperations' = Append(fileOperations,
                                        FileOperationRow(insertOperation, id, now))
            /\ currentOpId' = currentOpId + 1
            /\ clock' = now

\* storage.createFileOperation resolving: the row gets the next id of the
\* serial and the current time, which is never earlier than the last one read
createFileOperation(insertOperation) ==
    \E now \in {clock, clock + 1} :
        /\ fileOperations' = Append(fileOperations,
                                    FileOperationRow(insertOperation, currentOpId, now))
        /\ currentOpId' = currentOpId + 1
        /\ clock' = now

\* Array.prototype.sort with (a, b) => b.createdAt - a.createdAt is stable:
\* a row goes behind every row that is not older than it
RECURSIVE SortByCreatedAtDesc(_)
SortByCreatedAtDesc(rows) ==
    IF rows = <<>> THEN <<>>
    ELSE LET front == SortByCreatedAtDesc(SubSeq(rows, 1, Len(rows) - 1))
             last == rows[Len(rows)]
             keep == Cardinality({k \in 1..Len(front) :
                                     front[k].createdAt >= last.createdAt})
         IN  SubSeq(front, 1, keep) \o <<last>> \o SubSeq(front, keep + 1, Len(front))

\* limit = 10 in the parameter list of getUserFileOperations; `rest` is what
\* the caller passes after userId: nothing, or a limit
LimitOrDefault(rest) == IF rest = <<>> THEN 10 ELSE rest[1]

\* the slice(0, limit) / .limit(limit) forgotten
Take_noSlice(rows, limit) == rows

\* Array.prototype.slice(0, limit) / SQL LIMIT, for a limit that is not negative
Take(rows, limit) == SubSeq(rows, 1, IF Len(rows) < limit THEN Len(rows) ELSE limit)

\* storage.getUserFileOperations(userId, limit)
getUserFileOperations(userId, limit) ==
    LET OfUser(op) == op.userId = userId
        sorted == SortByCreatedAtDesc(SelectSeq(fileOperations, OfUser))
    IN  Take(sorted, limit)

\* ORDER BY created_at DESC: the rows in any order that puts no row before a
\* newer one; the database does not say how it orders rows of equal created_at
OrderByCreatedAtDesc(rows) ==
    LET n == Len(rows)
        Descending(q) == \A i \in 1..(n - 1) :
                             rows[q[i]].createdAt >= rows[q[i + 1]].createdAt
    IN  {[i \in 1..n |-> rows[q[i]]] : q \in {p \in Permutations(1..n) : Descending(p)}}

\* DatabaseStorage.getUserFileOperations(userId, limit): the lists the select
\* can resolve to
DatabaseStorage_getUserFileOperations(userId, limit) ==
    LET OfUser(op) == op.userId = userId
    IN  {Take(sorted, limit)
            : sorted \in OrderByCreatedAtDesc(SelectSeq(fileOperations, OfUser))}

\* const updatedOperation = { status } (the spread of the stored row forgotten)
updateFileOperationStatus_noSpread(id, status) ==
    /\ fileOperations' = [i \in DOMAIN fileOperations |->
            IF fileOperations[i].id = id
            THEN [fileOperations[i] EXCEPT !.status = status, !.filePath = undefined]
            ELSE fileOperations[i]]
    /\ UNCHANGED <<currentOpId, clock>>

\* storage.updateFileOperationStatus(id, status): the row of that id, if there
\* is one, is stored again with the given status
updateFileOperationStatus(id, status) ==
    /\ fileOperations' = [i \in DOMAIN fileOperations |->
            IF fileOperations[i].id = id
            THEN [fileOperations[i] EXCEPT !.status = status]
            ELSE fileOperations[i]]
    /\ UNCHANGED <<currentOpId, clock>>

\* storage.getUserRepositories(userId)
getUserRepositories(userId) ==
    LET OfUser(repo) == repo.userId = userId
    IN  SelectSeq(repositories, OfUser)

\* storage.createRepository resolving
createRepository(insertRepository) ==
    /\ repositories' = Append(repositories,
            [id |-> currentRepoId,
             userId |-> insertRepository.userId,
             githubId |-> insertRepository.githubId,
             name |-> insertRepository.name,
             fullName |-> insertRepository.fullName,
             private |-> insertRepository.private,
             defaultBranch |-> insertRepository.defaultBranch,
             lastSyncAt |-> "null"])
    /\ currentRepoId' = currentRepoId + 1

\* an awaited storage call resolves or rejects
StorageOutcomes == {"resolves", "rejects"}

\* ------------------------------------------------------- remote store
\* message || `Upload ${path}`
MessageOrDefault(message, verb, path) ==
    IF message = undefined THEN <<verb, path>> ELSE <<message>>

\* what `await fetch(...)` followed by `await response.json()` can produce:
\* one of the two awaits rejects (network failure, unreadable body), or the
\* store answers with a success, or with an error status and a body that
\* may carry a message.  The store refuses a delete that names no sha.
StoreMessages == {undefined, "Invalid request"}
StoreOutcomes(call) ==
    {[kind |-> "throws", ok |-> FALSE, httpStatus |-> 0, message |-> undefined]}
        \cup {[kind |-> "response", ok |-> FALSE, httpStatus |-> 422, message |-> m]
                : m \in StoreMessages}
        \cup IF call.method = "DELETE" /\ call.sha = undefined
             THEN {}
             ELSE {[kind |-> "response", ok |-> TRUE, httpStatus |-> 200,
                    message |-> undefined]}

\* ------------------------------------------------------- route helpers
\* the routes' preamble without its `if (!userId)` check
Gate_noSessionCheck(userId, lookup) ==
    IF lookup = "rejects" THEN "500"
    ELSE IF userId \notin users THEN "404"
    ELSE "pass"

\* the session check and the user lookup every route starts with
Gate(userId, lookup) ==
    IF userId = 0 THEN "401"
    ELSE IF lookup = "rejects" THEN "500"
    ELSE IF userId \notin users THEN "404"
    ELSE "pass"

GateResponse(gate, failure) ==
    IF gate = "401" THEN [status |-> 401, error |-> "Not authenticated"]
    ELSE IF gate = "404" THEN [status |-> 404, error |-> "User not found"]
    ELSE [status |-> 500, error |-> failure]

\* const { ..., branch, ... } = req.body, the default forgotten
BranchOrMain_noDefault(branch) == branch

\* const { ..., branch = "main", ... } = req.body
BranchOrMain(branch) == IF branch = undefined THEN "main" ELSE branch

Respond(r, resp) ==
    /\ pc' = [pc EXCEPT ![r] = "done"]
    /\ response' = [response EXCEPT ![r] = resp]

\* ------------------------------------------- POST .../upload-batch
BatchCall(request, file) ==
    [method |-> "PUT", path |-> file.path,
     message |-> MessageOrDefault(request.message, "Upload", file.path),
     content |-> file.content,
     branch |-> BranchOrMain(request.branch),
     sha |-> undefined]

BatchAggregate(res, errs) ==
    [status |-> 200,
     success |-> Len(errs) = 0,
     uploaded |-> Len(res),
     failed |-> Len(errs),
     results |-> res,
     errors |-> errs]

\* one more turn of `for (const file of files)` after file i: the next file's
\* write is issued, or the aggregate is sent after the last file.  res, errs
\* and tr are the results, the errors and the history as file i left them.
BatchNextFile(r, request, i, res, errs, tr) ==
    /\ results' = [results EXCEPT ![r] = res]
    /\ errors' = [errors EXCEPT ![r] = errs]
    /\ IF i < Len(request.files.items)
       THEN /\ idx' = [idx EXCEPT ![r] = i + 1]
            /\ issued' = [issued EXCEPT ![r] =
                   Append(issued[r], BatchCall(request, request.files.items[i + 1]))]
            /\ trace' = [trace EXCEPT ![r] =
                   Append(tr, [ev |-> "write", file |-> i + 1, id |-> 0])]
            /\ pc' = [pc EXCEPT ![r] = "batch_fetch"]
            /\ UNCHANGED response
       ELSE /\ Respond(r, BatchAggregate(res, errs))
            /\ trace' = [trace EXCEPT ![r] = tr]
            /\ UNCHANGED <<idx, issued>>

\* the loop body without its try/catch: the error reaches the outer catch
BatchCatch_rethrow(r, message, tr) ==
    /\ Respond(r, [status |-> 500, error |-> "Failed to upload files"])
    /\ trace' = [trace EXCEPT ![r] = tr]
    /\ UNCHANGED <<idx, issued, results, errors>>

\* the catch block of the loop body: the error is pushed and the loop goes on
BatchCatch(r, message, tr) ==
    BatchNextFile(r, req[r], idx[r], results[r],
                  Append(errors[r], [path |-> req[r].files.items[idx[r]].path,
                                     error |-> message]),
                  tr)

\* the validation without its `files.length === 0` half
FilesInvalid_noLengthCheck(files) == ~files.isArray

\* !Array.isArray(files) || files.length === 0
FilesInvalid(files) == ~files.isArray \/ Len(files.items) = 0

\* the handler from the arrival of the request to its first `await fetch`,
\* or to the response that ends it before
ReceiveBatch(r, userId, files, branch, message, lookup) ==
    LET request == [NoRequest EXCEPT !.route = "upload-batch", !.userId = userId, !.lookup = lookup,
                                     !.files = files, !.branch = branch,
                                     !.message = message]
        gate == Gate(userId, lookup)
    IN  /\ userId # 0 => Len(fileOperations) + Len(repositories) < MaxLedger
        /\ req' = [req EXCEPT ![r] = request]
        /\ IF gate # "pass"
           THEN /\ Respond(r, GateResponse(gate, "Failed to upload files"))
                /\ UNCHANGED <<idx, results, errors, issued, trace>>
           ELSE IF FilesInvalid(files)
           THEN /\ Respond(r, [status |-> 400, error |-> "Files array is required"])
                /\ UNCHANGED <<idx, results, errors, issued, trace>>
           ELSE BatchNextFile(r, request, 0, <<>>, <<>>, <<>>)

\* a batch request of any client arrives
UploadBatch(r) ==
    /\ pc[r] = "idle"
    /\ \E userId \in SessionUserIds, files \in FilesInputs, branch \in BranchInputs,
          message \in MessageInputs, lookup \in StorageOutcomes :
          ReceiveBatch(r, userId, files, branch, message, lookup)
    /\ UNCHANGED <<storageVars, held>>
    /\ UNCHANGED <<storageCall, clientVars>>

\* `await fetch(...)` and `await uploadResponse.json()` of the current file settle
BatchFetchSettles(r) ==
    /\ pc[r] = "batch_fetch"
    /\ \E out \in StoreOutcomes(issued[r][Len(issued[r])]) :
          LET file == req[r].files.items[idx[r]]
              Settled(ev) == Append(trace[r], [ev |-> ev, file |-> idx[r], id |-> 0])
          IN  IF out.kind = "throws"
              THEN /\ BatchCatch(r, "error.message", Settled("threw"))
                   /\ UNCHANGED held
              ELSE IF out.ok
              THEN /\ results' = [results EXCEPT ![r] =
                          Append(results[r], [path |-> file.path, success |-> TRUE])]
                   /\ held' = [held EXCEPT ![r] = out]
                   /\ trace' = [trace EXCEPT ![r] = Settled("accepted")]
                   /\ pc' = [pc EXCEPT ![r] = "batch_insert"]
                   /\ UNCHANGED <<idx, errors, issued, response>>
              ELSE /\ BatchNextFile(r, req[r], idx[r], results[r],
                          Append(errors[r],
                                 [path |-> file.path,
                                  error |-> IF out.message = undefined
                                            THEN "Upload failed" ELSE out.message]),
                          Settled("rejected"))
                   /\ UNCHANGED held
    /\ UNCHANGED <<storageVars, req>>
    /\ UNCHANGED <<storageCall, clientVars>>

\* `await storage.createFileOperation(...)` of the current file settles
BatchInsertSettles(r) ==
    /\ pc[r] = "batch_insert"
    /\ \E insert \in StorageOutcomes :
          LET file == req[r].files.items[idx[r]]
          IN  IF insert = "resolves"
              THEN /\ createFileOperation(
                          [userId |-> req[r].userId,
                           repositoryId |-> 0,
                           operation |-> "upload",
                           filePath |-> file.path,
                           branch |-> BranchOrMain(req[r].branch),
                           status |-> "completed",
                           metadata |-> [message |-> req[r].message,
                                         size |-> Len(file.content)]])
                   /\ BatchNextFile(r, req[r], idx[r], results[r], errors[r],
                          Append(trace[r], [ev |-> "insert", file |-> idx[r],
                                            id |-> currentOpId]))
              ELSE /\ BatchCatch(r, "error.message",
                          Append(trace[r], [ev |-> "insert_failed", file |-> idx[r],
                                            id |-> 0]))
                   /\ UNCHANGED ledgerVars
    /\ held' = [held EXCEPT ![r] = NoHeld]
    /\ UNCHANGED <<repoVars, req>>
    /\ UNCHANGED <<storageCall, clientVars>>

\* the store never answers the write of the current file: the promise of
\* `await fetch(...)` stays pending; the handler passes fetch no signal and
\* sets no timer, so it stays suspended on that await
BatchFetchNeverSettles(r) ==
    /\ pc[r] = "batch_fetch"
    /\ pc' = [pc EXCEPT ![r] = "batch_fetch_pending"]
    /\ UNCHANGED <<storageVars, req, idx, results, errors, held, issued, trace, response>>
    /\ UNCHANGED <<storageCall, clientVars>>

\* ------------------------------------------- PUT .../contents/<path>
PutCall(request) ==
    [method |-> "PUT", path |-> request.path,
     message |-> MessageOrDefault(request.message, "Upload", request.path),
     content |-> request.content,
     branch |-> BranchOrMain(request.branch),
     sha |-> request.sha]

\* the handler from the arrival of the request to `await fetch`, or to the
\* response that ends it before
ReceivePut(r, userId, path, content, message, branch, sha, lookup) ==
    LET request == [NoRequest EXCEPT !.route = "put", !.userId = userId, !.lookup = lookup,
                                     !.path = path, !.content = content,
                                     !.message = message, !.branch = branch,
                                     !.sha = sha]
        gate == Gate(userId, lookup)
    IN  /\ userId # 0 => Len(fileOperations) + Len(repositories) < MaxLedger
        /\ req' = [req EXCEPT ![r] = request]
        /\ IF gate # "pass"
           THEN /\ Respond(r, GateResponse(gate, "Failed to upload file"))
                /\ UNCHANGED <<issued, trace>>
           ELSE /\ issued' = [issued EXCEPT ![r] = <<PutCall(request)>>]
                /\ trace' = [trace EXCEPT ![r] =
                       <<[ev |-> "write", file |-> 1, id |-> 0]>>]
                /\ pc' = [pc EXCEPT ![r] = "put_fetch"]
                /\ UNCHANGED response

\* a single-file write of any client arrives
PutContents(r) ==
    /\ pc[r] = "idle"
    /\ \E userId \in SessionUserIds, path \in Paths, content \in Contents,
          message \in MessageInputs, branch \in BranchInputs, sha \in ShaInputs,
          lookup \in StorageOutcomes :
          ReceivePut(r, userId, path, content, message, branch, sha, lookup)
    /\ UNCHANGED <<storageVars, idx, results, errors, held>>
    /\ UNCHANGED <<storageCall, clientVars>>

\* `await fetch(...)` and `await uploadResponse.json()` settle
PutFetchSettles(r) ==
    /\ pc[r] = "put_fetch"
    /\ \E out \in StoreOutcomes(issued[r][1]) :
          IF out.kind = "throws"
          THEN /\ Respond(r, [status |-> 500, error |-> "Failed to upload file"])
               /\ trace' = [trace EXCEPT ![r] =
                      Append(trace[r], [ev |-> "threw", file |-> 1, id |-> 0])]
               /\ UNCHANGED held
          ELSE /\ held' = [held EXCEPT ![r] = out]
               /\ trace' = [trace EXCEPT ![r] =
                      Append(trace[r], [ev |-> IF out.ok THEN "accepted" ELSE "rejected",
                                        file |-> 1, id |-> 0])]
               /\ pc' = [pc EXCEPT ![r] = "put_insert"]
               /\ UNCHANGED response
    /\ UNCHANGED <<storageVars, req, idx, results, errors, issued>>
    /\ UNCHANGED <<storageCall, clientVars>>

\* `await storage.createFileOperation(...)` settles, then res.json(result)
PutInsertSettles(r) ==
    /\ pc[r] = "put_insert"
    /\ \E insert \in StorageOutcomes :
          IF insert = "resolves"
          THEN /\ createFileOperation(
                      [userId |-> req[r].userId,
                       repositoryId |-> 0,
                       operation |-> "upload",
                       filePath |-> req[r].path,
                       branch |-> BranchOrMain(req[r].branch),
                       status |-> IF held[r].ok THEN "completed" ELSE "failed",
                       metadata |-> [message |-> req[r].message,
                                     size |-> Len(req[r].content)]])
               /\ trace' = [trace EXCEPT ![r] =
                      Append(trace[r], [ev |-> "insert", file |-> 1, id |-> currentOpId])]
               /\ Respond(r, [status |-> 200, result |-> held[r]])
          ELSE /\ trace' = [trace EXCEPT ![r] =
                      Append(trace[r], [ev |-> "insert_failed", file |-> 1, id |-> 0])]
               /\ Respond(r, [status |-> 500, error |-> "Failed to upload file"])
               /\ UNCHANGED ledgerVars
    /\ held' = [held EXCEPT ![r] = NoHeld]
    /\ UNCHANGED <<repoVars, req, idx, results, errors, issued>>
    /\ UNCHANGED <<storageCall, clientVars>>

\* ------------------------------- requests of two signed-in users
\* the user whose client holds connection r
UserOf(r) == IF r % 2 = 1 THEN 1 ELSE 2

\* the client of UserOf(r) sends a batch of at most MaxInFlight files
UserUploadBatch(r) ==
    /\ pc[r] = "idle"
    /\ \E files \in FilesInputs :
          /\ Len(files.items) <= MaxInFlight
          /\ ReceiveBatch(r, UserOf(r), files, undefined, undefined, "resolves")
    /\ UNCHANGED <<storageVars, held>>
    /\ UNCHANGED <<storageCall, clientVars>>

\* the client of UserOf(r) sends a single file
UserPutContents(r) ==
    /\ pc[r] = "idle"
    /\ \E path \in Paths, content \in Contents, sha \in ShaInputs :
          ReceivePut(r, UserOf(r), path, content, undefined, undefined, sha, "resolves")
    /\ UNCHANGED <<storageVars, idx, results, errors, held>>
    /\ UNCHANGED <<storageCall, clientVars>>

\* ---------------------------------------- DELETE .../contents/<path>
DeleteCall(request) ==
    [method |-> "DELETE", path |-> request.path,
     message |-> MessageOrDefault(request.message, "Delete", request.path),
     content |-> undefined,
     branch |-> BranchOrMain(request.branch),
     sha |-> request.sha]

\* the handler up to `await fetch`
DeleteContents(r) ==
    /\ pc[r] = "idle"
    /\ \E userId \in SessionUserIds, path \in Paths, message \in MessageInputs,
          branch \in BranchInputs, sha \in ShaInputs, lookup \in StorageOutcomes :
          LET request == [NoRequest EXCEPT !.route = "delete", !.userId = userId, !.lookup = lookup,
                                           !.path = path, !.message = message,
                                           !.branch = branch, !.sha = sha]
              gate == Gate(userId, lookup)
          IN  /\ userId # 0 => Len(fileOperations) + Len(repositories) < MaxLedger
              /\ req' = [req EXCEPT ![r] = request]
              /\ IF gate # "pass"
                 THEN /\ Respond(r, GateResponse(gate, "Failed to delete file"))
                      /\ UNCHANGED <<issued, trace>>
                 ELSE /\ issued' = [issued EXCEPT ![r] = <<DeleteCall(request)>>]
                      /\ trace' = [trace EXCEPT ![r] =
                             <<[ev |-> "write", file |-> 1, id |-> 0]>>]
                      /\ pc' = [pc EXCEPT ![r] = "delete_fetch"]
                      /\ UNCHANGED response
    /\ UNCHANGED <<storageVars, idx, results, errors, held>>
    /\ UNCHANGED <<storageCall, clientVars>>

\* `await fetch(...)` and `await deleteResponse.json()` settle
DeleteFetchSettles(r) ==
    /\ pc[r] = "delete_fetch"
    /\ \E out \in StoreOutcomes(issued[r][1]) :
          IF out.kind = "throws"
          THEN /\ Respond(r, [status |-> 500, error |-> "Failed to delete file"])
               /\ trace' = [trace EXCEPT ![r] =
                      Append(trace[r], [ev |-> "threw", file |-> 1, id |-> 0])]
               /\ UNCHANGED held
          ELSE /\ held' = [held EXCEPT ![r] = out]
               /\ trace' = [trace EXCEPT ![r] =
                      Append(trace[r], [ev |-> IF out.ok THEN "accepted" ELSE "rejected",
                                        file |-> 1, id |-> 0])]
               /\ pc' = [pc EXCEPT ![r] = "delete_insert"]
               /\ UNCHANGED response
    /\ UNCHANGED <<storageVars, req, idx, results, errors, issued>>
    /\ UNCHANGED <<storageCall, clientVars>>

\* `await storage.createFileOperation(...)` settles, then res.json(result)
DeleteInsertSettles(r) ==
    /\ pc[r] = "delete_insert"
    /\ \E insert \in StorageOutcomes :
          IF insert = "resolves"
          THEN /\ createFileOperation(
                      [userId |-> req[r].userId,
                       repositoryId |-> 0,
                       operation |-> "delete",
                       filePath |-> req[r].path,
                       branch |-> BranchOrMain(req[r].branch),
                       status |-> IF held[r].ok THEN "completed" ELSE "failed",
                       metadata |-> [message |-> req[r].message]])
               /\ trace' = [trace EXCEPT ![r] =
                      Append(trace[r], [ev |-> "insert", file |-> 1, id |-> currentOpId])]
               /\ Respond(r, [status |-> 200, result |-> held[r]])
          ELSE /\ trace' = [trace EXCEPT ![r] =
                      Append(trace[r], [ev |-> "insert_failed", file |-> 1, id |-> 0])]
               /\ Respond(r, [status |-> 500, error |-> "Failed to delete file"])
               /\ UNCHANGED ledgerVars
    /\ held' = [held EXCEPT ![r] = NoHeld]
    /\ UNCHANGED <<repoVars, req, idx, results, errors, issued>>
    /\ UNCHANGED <<storageCall, clientVars>>

\* ------------------------------------------------- GET /api/activity
ActivityLimit == 10

\* the whole handler: session check, then the ledger query
GetActivity(r) ==
    /\ pc[r] = "idle"
    /\ \E userId \in SessionUserIds, query \in StorageOutcomes :
          /\ req' = [req EXCEPT ![r] = [NoRequest EXCEPT !.route = "activity",
                                                         !.userId = userId]]
          /\ IF userId = 0
             THEN Respond(r, [status |-> 401, error |-> "Not authenticated"])
             ELSE IF query = "rejects"
             THEN Respond(r, [status |-> 500, error |-> "Failed to fetch activity"])
             ELSE \E operations \in
                        DatabaseStorage_getUserFileOperations(userId, ActivityLimit) :
                      Respond(r, [status |-> 200, operations |-> operations])
    /\ UNCHANGED <<storageVars, idx, results, errors, held, issued, trace>>
    /\ UNCHANGED <<storageCall, clientVars>>

\* ------------------------- GET .../branches and GET .../contents
ReadCall(kind, path, ref) ==
    [method |-> "GET", path |-> path, message |-> kind, content |-> undefined,
     branch |-> ref, sha |-> undefined]

\* the branches handler up to `await fetch`
GetBranches(r) ==
    /\ pc[r] = "idle"
    /\ \E userId \in SessionUserIds, lookup \in StorageOutcomes :
          LET request == [NoRequest EXCEPT !.route = "branches", !.userId = userId, !.lookup = lookup]
              gate == Gate(userId, lookup)
          IN  /\ req' = [req EXCEPT ![r] = request]
              /\ IF gate # "pass"
                 THEN /\ Respond(r, GateResponse(gate, "Failed to fetch branches"))
                      /\ UNCHANGED issued
                 ELSE /\ issued' = [issued EXCEPT ![r] =
                             <<ReadCall("branches", undefined, undefined)>>]
                      /\ pc' = [pc EXCEPT ![r] = "branches_fetch"]
                      /\ UNCHANGED response
    /\ UNCHANGED <<storageVars, idx, results, errors, held, trace>>
    /\ UNCHANGED <<storageCall, clientVars>>

\* `await fetch(...)` and `await branchesResponse.json()` settle
BranchesFetchSettles(r) ==
    /\ pc[r] = "branches_fetch"
    /\ \E out \in StoreOutcomes(issued[r][1]) :
          IF out.kind = "throws"
          THEN Respond(r, [status |-> 500, error |-> "Failed to fetch branches"])
          ELSE Respond(r, [status |-> 200, result |-> out])
    /\ UNCHANGED <<storageVars, req, idx, results, errors, held, issued, trace>>
    /\ UNCHANGED <<storageCall, clientVars>>

\* the contents handler up to `await fetch`; path = "" and ref = "main" by default
GetContents(r) ==
    /\ pc[r] = "idle"
    /\ \E userId \in SessionUserIds, path \in Paths \cup {undefined},
          ref \in BranchInputs, lookup \in StorageOutcomes :
          LET request == [NoRequest EXCEPT !.route = "contents", !.userId = userId, !.lookup = lookup,
                                           !.path = path, !.branch = ref]
              gate == Gate(userId, lookup)
          IN  /\ req' = [req EXCEPT ![r] = request]
              /\ IF gate # "pass"
                 THEN /\ Respond(r, GateResponse(gate, "Failed to fetch repository contents"))
                      /\ UNCHANGED issued
                 ELSE /\ issued' = [issued EXCEPT ![r] =
                             <<ReadCall("contents",
                                        IF path = undefined THEN "" ELSE path,
                                        BranchOrMain(ref))>>]
                      /\ pc' = [pc EXCEPT ![r] = "contents_fetch"]
                      /\ UNCHANGED response
    /\ UNCHANGED <<storageVars, idx, results, errors, held, trace>>
    /\ UNCHANGED <<storageCall, clientVars>>

\* `await fetch(...)` and `await contentsResponse.json()` settle
ContentsFetchSettles(r) ==
    /\ pc[r] = "contents_fetch"
    /\ \E out \in StoreOutcomes(issued[r][1]) :
          IF out.kind = "throws"
          THEN Respond(r, [status |-> 500, error |-> "Failed to fetch repository contents"])
          ELSE Respond(r, [status |-> 200, result |-> out])
    /\ UNCHANGED <<storageVars, req, idx, results, errors, held, issued, trace>>
    /\ UNCHANGED <<storageCall, clientVars>>

\* ---------------------------------------------- GET /api/repositories
GithubRepo(n) ==
    [id |-> 100 + n, name |-> <<"repo", n>>, full_name |-> <<"octocat", "repo", n>>,
     private |-> FALSE, default_branch |-> "main"]
RepoListings == {[i \in 1..n |-> GithubRepo(i)] : n \in 0..MaxListing}

\* the handler up to `await fetch`
GetRepositories(r) ==
    /\ pc[r] = "idle"
    /\ \E userId \in SessionUserIds, lookup \in StorageOutcomes :
          LET request == [NoRequest EXCEPT !.route = "repositories", !.userId = userId, !.lookup = lookup]
              gate == Gate(userId, lookup)
          IN  /\ userId # 0 => Len(fileOperations) + Len(repositories) < MaxLedger
              /\ req' = [req EXCEPT ![r] = request]
              /\ IF gate # "pass"
                 THEN /\ Respond(r, GateResponse(gate, "Failed to fetch repositories"))
                      /\ UNCHANGED issued
                 ELSE /\ issued' = [issued EXCEPT ![r] =
                             <<ReadCall("repos", undefined, undefined)>>]
                      /\ pc' = [pc EXCEPT ![r] = "repos_fetch"]
                      /\ UNCHANGED response
    /\ UNCHANGED <<storageVars, idx, results, errors, held, trace>>
    /\ UNCHANGED <<storageCall, clientVars>>

\* one more turn of `for (const repo of githubRepos)` after repo i
ReposNextRepo(r, githubRepos, i) ==
    IF i < Len(githubRepos)
    THEN /\ idx' = [idx EXCEPT ![r] = i + 1]
         /\ pc' = [pc EXCEPT ![r] = "repos_read"]
         /\ UNCHANGED response
    ELSE /\ Respond(r, [status |-> 200, result |-> githubRepos])
         /\ UNCHANGED idx

\* `await fetch(...)` and `await reposResponse.json()` settle; an error body
\* is not iterable, so the for-of throws on it
ReposFetchSettles(r) ==
    /\ pc[r] = "repos_fetch"
    /\ \E out \in StoreOutcomes(issued[r][1]) :
          IF out.kind = "throws" \/ ~out.ok
          THEN /\ Respond(r, [status |-> 500, error |-> "Failed to fetch repositories"])
               /\ UNCHANGED <<held, idx>>
          ELSE \E githubRepos \in RepoListings :
                  /\ held' = [held EXCEPT ![r] = [kind |-> "listing", repos |-> githubRepos]]
                  /\ ReposNextRepo(r, githubRepos, 0)
    /\ UNCHANGED <<storageVars, req, results, errors, issued, trace>>
    /\ UNCHANGED <<storageCall, clientVars>>

\* `await storage.getUserRepositories(userId)` settles, then the find
ReposRead(r) ==
    /\ pc[r] = "repos_read"
    /\ \E read \in StorageOutcomes :
          LET repo == held[r].repos[idx[r]]
              found == \E k \in 1..Len(getUserRepositories(req[r].userId)) :
                          getUserRepositories(req[r].userId)[k].githubId = repo.id
          IN  IF read = "rejects"
              THEN /\ Respond(r, [status |-> 500, error |-> "Failed to fetch repositories"])
                   /\ UNCHANGED idx
              ELSE IF found
              THEN ReposNextRepo(r, held[r].repos, idx[r])
              ELSE /\ pc' = [pc EXCEPT ![r] = "repos_create"]
                   /\ UNCHANGED <<idx, response>>
    /\ UNCHANGED <<storageVars, req, results, errors, held, issued, trace>>
    /\ UNCHANGED <<storageCall, clientVars>>

\* `await storage.createRepository(...)` settles
ReposCreate(r) ==
    /\ pc[r] = "repos_create"
    /\ \E insert \in StorageOutcomes :
          LET repo == held[r].repos[idx[r]]
          IN  IF insert = "rejects"
              THEN /\ Respond(r, [status |-> 500, error |-> "Failed to fetch repositories"])
                   /\ UNCHANGED <<idx, repoVars>>
              ELSE /\ createRepository([userId |-> req[r].userId,
                                        githubId |-> repo.id,
                                        name |-> repo.name,
                                        fullName |-> repo.full_name,
                                        private |-> repo.private,
                                        defaultBranch |-> repo.default_branch])
                   /\ ReposNextRepo(r, held[r].repos, idx[r])
    /\ UNCHANGED <<ledgerVars, req, results, errors, held, issued, trace>>
    /\ UNCHANGED <<storageCall, clientVars>>

\* slot r is free for the next request
ResetSlot(r) ==
    /\ pc' = [pc EXCEPT ![r] = "idle"]
    /\ req' = [req EXCEPT ![r] = NoRequest]
    /\ idx' = [idx EXCEPT ![r] = 0]
    /\ results' = [results EXCEPT ![r] = <<>>]
    /\ errors' = [errors EXCEPT ![r] = <<>>]
    /\ held' = [held EXCEPT ![r] = NoHeld]
    /\ issued' = [issued EXCEPT ![r] = <<>>]
    /\ trace' = [trace EXCEPT ![r] = <<>>]
    /\ response' = [response EXCEPT ![r] = NoResponse]

\* the request is over; its slot takes the next request
Reset(r) ==
    /\ pc[r] = "done"
    /\ ResetSlot(r)
    /\ UNCHANGED storageVars
    /\ UNCHANGED <<storageCall, clientVars>>

\* ------------------------------------- the storage object called directly
StatusInputs == {undefined, "pending", "completed", "failed"}
InsertOperations ==
    {[userId |-> u, repositoryId |-> 0, operation |-> "upload",
      filePath |-> PathList[1], branch |-> "main", status |-> st, metadata |-> "null"]
        : u \in users, st \in StatusInputs}
LimitInputs == {<<>>, <<0>>, <<1>>, <<2>>, <<10>>}     \* nothing, or a limit
StorageClasses == {"MemStorage", "DatabaseStorage"}

\* no route handler is running or holds an answer
ServerIdle == \A r \in Requests : pc[r] \in {"idle", "off"}

\* storage.createFileOperation(insertOperation), awaited
CallCreateFileOperation ==
    /\ ServerIdle
    /\ Len(fileOperations) < MaxRows
    /\ \E insertOperation \in InsertOperations :
          /\ createFileOperation(insertOperation)
          /\ storageCall' = [method |-> "createFileOperation",
                             insertOperation |-> insertOperation,
                             returned |-> fileOperations'[Len(fileOperations')]]
    /\ UNCHANGED <<repoVars, requestVars, clientVars>>

\* storage.updateFileOperationStatus(id, status), awaited; currentOpId is an
\* id no row has; returned is <<>> for undefined, else the one row
CallUpdateFileOperationStatus ==
    /\ ServerIdle
    /\ \E id \in 1..currentOpId, status \in StatusInputs \ {undefined} :
          /\ updateFileOperationStatus(id, status)
          /\ storageCall' =
                [method |-> "updateFileOperationStatus", id |-> id, status |-> status,
                 returned |->
                    LET HasId(op) == op.id = id
                    IN  SelectSeq(fileOperations', HasId)]
    /\ UNCHANGED <<repoVars, requestVars, clientVars>>

\* storage.getUserFileOperations(userId, limit), awaited, on either class
CallGetUserFileOperations ==
    /\ ServerIdle
    /\ \E userId \in users, limit \in LimitInputs, class \in StorageClasses :
          \E returned \in
                IF class = "MemStorage"
                THEN {getUserFileOperations(userId, LimitOrDefault(limit))}
                ELSE DatabaseStorage_getUserFileOperations(userId,
                                                            LimitOrDefault(limit)) :
              storageCall' = [method |-> "getUserFileOperations", class |-> class,
                              userId |-> userId, limit |-> limit,
                              returned |-> returned]
    /\ UNCHANGED <<storageVars, requestVars, clientVars>>

\* ------------------------------------------------------ upload panel
\* path: (file as any).webkitRelativePath || file.name
UploadFile(file) ==
    [file |-> file,
     path |-> IF file.webkitRelativePath # <<>> THEN file.webkitRelativePath
              ELSE <<file.name>>,
     progress |-> 0]

\* handleFileSelect with setUploadFiles(newFiles)
handleFileSelect_replace(files) ==
    IF files.isNull
    THEN UNCHANGED uploadFiles
    ELSE uploadFiles' = [i \in DOMAIN files.items |-> UploadFile(files.items[i])]

\* handleFileSelect(files)
handleFileSelect(files) ==
    IF files.isNull
    THEN UNCHANGED uploadFiles
    ELSE uploadFiles' = uploadFiles \o [i \in DOMAIN files.items |->
                                           UploadFile(files.items[i])]

\* no drop is being read and no archive is being extracted
PanelIdle == drop.phase # "reading" /\ zip.phase # "extracting"

\* onChange of the file input
SelectFiles ==
    /\ PanelIdle
    /\ Len(uploadFiles) < MaxQueue
    /\ \E files \in FileListInputs : handleFileSelect(files)
    /\ UNCHANGED <<toasts, drop, reads, zip>>
    /\ UNCHANGED <<storageVars, requestVars, storageCall, uploadMutation>>

\* the files below directory q as the folder input lists them: depth first,
\* each with the path the browser gives it
RECURSIVE PickedFiles(_, _)
PickedFiles(q, path) ==
    LET Walk[i \in 0..Len(Folders[q])] ==
            IF i = 0 THEN <<>>
            ELSE LET entry == Folders[q][i]
                 IN  Walk[i - 1] \o
                     IF entry.isFile
                     THEN <<NativeFile(entry.name, JoinPath(path, entry.name))>>
                     ELSE PickedFiles(q \o <<entry.name>>, JoinPath(path, entry.name))
    IN  Walk[Len(Folders[q])]

\* handleFolderSelect: onChange of the webkitdirectory input, the user having
\* picked one of the folders
SelectFolder ==
    /\ PanelIdle
    /\ Len(uploadFiles) < MaxQueue
    /\ \E q \in RootFolders :
          handleFileSelect([isNull |-> FALSE, items |-> PickedFiles(q, q)])
    /\ UNCHANGED <<toasts, drop, reads, zip>>
    /\ UNCHANGED <<storageVars, requestVars, storageCall, uploadMutation>>

\* readDirectory(dirEntry, path, callback) up to its call of readEntries
StartedRead(path) ==
    [phase |-> "readEntries", path |-> path, delivered |-> 0, pending |-> 0,
     waiting |-> {}, files |-> <<>>, callbacks |-> 0]

\* handleDrop up to its return
HandleDrop ==
    /\ PanelIdle
    /\ Len(uploadFiles) < MaxQueue
    /\ \E items \in DropInputs :
          LET IsFile(item) == item.kind = "file" /\ item.isFile
              IsDirectory(item) == item.kind = "file" /\ ~item.isFile
              files == SelectSeq(items, IsFile)
              droppedFiles == [i \in DOMAIN files |-> NativeFile(files[i].name, <<>>)]
              filePromises == {<<items[i].name>> : i \in {k \in DOMAIN items :
                                                            IsDirectory(items[k])}}
          IN  IF filePromises # {}
              THEN /\ drop' = [phase |-> "reading", items |-> items,
                               droppedFiles |-> droppedFiles,
                               filePromises |-> filePromises, resolved |-> {}]
                   /\ reads' = [q \in Directories |->
                                  IF q \in filePromises THEN StartedRead(<<>>)
                                  ELSE NoRead]
                   /\ UNCHANGED uploadFiles
              ELSE /\ drop' = [phase |-> "done", items |-> items,
                               droppedFiles |-> droppedFiles,
                               filePromises |-> {}, resolved |-> {}]
                   /\ handleFileSelect([isNull |-> FALSE, items |-> droppedFiles])
                   /\ UNCHANGED reads
    /\ UNCHANGED <<toasts, zip>>
    /\ UNCHANGED <<storageVars, requestVars, storageCall, uploadMutation>>

\* `readEntries()` after every entry, whatever pending has come down to
EntryDone_noWait(read, i, more) ==
    [read EXCEPT !.files = @ \o more,
                 !.pending = @ - 1,
                 !.waiting = @ \ {i},
                 !.phase = "readEntries"]

\* `if (pending-- === 0) readEntries()`: the test made before the decrement
EntryDone_postDecrement(read, i, more) ==
    [read EXCEPT !.files = @ \o more,
                 !.pending = @ - 1,
                 !.waiting = @ \ {i},
                 !.phase = IF read.pending = 0 THEN "readEntries" ELSE "entries"]

\* `if (--pending === 0) readEntries()` in the read of q, entry i having
\* called back with `more` files; waiting holds the entries of the batch
\* whose callback is still to come
EntryDone(read, i, more) ==
    [read EXCEPT !.files = @ \o more,
                 !.pending = @ - 1,
                 !.waiting = @ \ {i},
                 !.phase = IF read.pending - 1 = 0 THEN "readEntries" ELSE "entries"]

\* the callback of dirReader.readEntries of directory q runs with the next
\* entries of q, or with none once all were delivered
ReadEntries(q) ==
    /\ reads[q].phase = "readEntries"
    /\ LET all == Folders[q]
           rest == Len(all) - reads[q].delivered
       IN  \E n \in (IF rest = 0 THEN {0} ELSE 1..rest) :
             IF n = 0
             THEN \* callback(files)
                  IF Len(q) = 1
                  THEN /\ drop' = [drop EXCEPT !.droppedFiles = @ \o reads[q].files,
                                               !.resolved = @ \cup {q}]
                       /\ reads' = [reads EXCEPT ![q].phase = "done",
                                                 ![q].callbacks = @ + 1]
                  ELSE LET parent == SubSeq(q, 1, Len(q) - 1)
                           i == CHOOSE k \in DOMAIN Folders[parent] :
                                    Folders[parent][k].name = q[Len(q)]
                       IN  /\ reads' = [reads EXCEPT
                                  ![q].phase = "done",
                                  ![q].callbacks = @ + 1,
                                  ![parent] = EntryDone(reads[parent], i, reads[q].files)]
                           /\ UNCHANGED drop
             ELSE LET entries == (reads[q].delivered + 1)..(reads[q].delivered + n)
                      Sub(p) == \E i \in entries :
                                   ~all[i].isFile /\ p = q \o <<all[i].name>>
                  IN  /\ reads' = [p \in Directories |->
                             IF p = q
                             THEN [reads[q] EXCEPT !.phase = "entries",
                                                   !.delivered = @ + n,
                                                   !.pending = n,
                                                   !.waiting = entries]
                             ELSE IF Sub(p)
                             THEN StartedRead(JoinPath(reads[q].path, p[Len(p)]))
                             ELSE reads[p]]
                      /\ UNCHANGED drop
    /\ UNCHANGED <<uploadFiles, toasts, zip>>
    /\ UNCHANGED <<storageVars, requestVars, storageCall, uploadMutation>>

\* the callback of entry.file() runs for file entry i of directory q
FileRead(q, i) ==
    /\ reads[q].phase = "entries"
    /\ i \in reads[q].waiting
    /\ Folders[q][i].isFile
    /\ LET name == Folders[q][i].name
           newFile == NativeFile(name, JoinPath(reads[q].path, name))
       IN  reads' = [reads EXCEPT ![q] = EntryDone(reads[q], i, <<newFile>>)]
    /\ UNCHANGED <<uploadFiles, toasts, drop, zip>>
    /\ UNCHANGED <<storageVars, requestVars, storageCall, uploadMutation>>

\* Promise.all(filePromises).then(...) runs
DropEnumerated ==
    /\ drop.phase = "reading"
    /\ drop.resolved = drop.filePromises
    /\ handleFileSelect([isNull |-> FALSE, items |-> drop.droppedFiles])
    /\ drop' = [drop EXCEPT !.phase = "done"]
    /\ UNCHANGED <<toasts, reads, zip>>
    /\ UNCHANGED <<storageVars, requestVars, storageCall, uploadMutation>>

\* ------------------------------------------------- archive extraction
\* onCheckedChange of the "Extract ZIP after upload" checkbox
SetExtractZip ==
    /\ PanelIdle
    /\ zip' = [zip EXCEPT !.extractZip = ~@]
    /\ UNCHANGED <<uploadFiles, toasts, drop, reads>>
    /\ UNCHANGED <<storageVars, requestVars, storageCall, uploadMutation>>

\* the test of the file name left out: `if (extractZip)`
EndsWithZip_anyName(name) == TRUE

\* file.name.endsWith('.zip')
EndsWithZip(name) == name \in ZipNames

\* handleZipUpload up to `await zip.loadAsync(file)`, or to its return;
\* zip.name is the name of `file`, "" when e.target.files holds none
HandleZipUpload ==
    /\ PanelIdle
    /\ Len(uploadFiles) < MaxQueue
    /\ Len(toasts) < MaxNotices
    /\ \E file \in ZipInputs :
          IF file.isEmpty
          THEN /\ zip' = [zip EXCEPT !.name = ""]
               /\ UNCHANGED <<uploadFiles, toasts>>
          ELSE IF zip.extractZip /\ EndsWithZip(file.name)
          THEN /\ toasts' = Append(toasts, [title |-> "Extracting ZIP",
                                            variant |-> "default"])
               /\ zip' = [zip EXCEPT !.phase = "extracting", !.name = file.name,
                                     !.file = file.content,
                                     !.at = 0, !.extractedFiles = <<>>,
                                     !.outcome = "none"]
               /\ UNCHANGED uploadFiles
          ELSE /\ handleFileSelect([isNull |-> FALSE,
                                    items |-> <<NativeFile(file.name, <<>>)>>])
               /\ zip' = [zip EXCEPT !.name = file.name]
               /\ UNCHANGED toasts
    /\ UNCHANGED <<drop, reads>>
    /\ UNCHANGED <<storageVars, requestVars, storageCall, uploadMutation>>

\* the catch block of handleZipUpload, which adds what was extracted so far
ZipCatch_keepsExtracted ==
    /\ toasts' = Append(toasts, [title |-> "ZIP Extraction Failed",
                                 variant |-> "destructive"])
    /\ zip' = [zip EXCEPT !.phase = "done", !.outcome = "failed"]
    /\ uploadFiles' = uploadFiles \o zip.extractedFiles

\* the catch block of handleZipUpload
ZipCatch ==
    /\ toasts' = Append(toasts, [title |-> "ZIP Extraction Failed",
                                 variant |-> "destructive"])
    /\ zip' = [zip EXCEPT !.phase = "done", !.outcome = "failed"]
    /\ UNCHANGED uploadFiles

\* if (!zipEntry.dir), the test left out
SkipsEntry_neverSkips(zipEntry) == FALSE

\* if (!zipEntry.dir)
SkipsEntry(zipEntry) == zipEntry.dir

\* the for-of loop over Object.entries(zipContent.files) after entry `at`,
\* up to its next `await zipEntry.async(...)` or, past the last entry, to
\* the end of the try block
ZipNextEntry(files, at, extractedFiles) ==
    LET decoded == {i \in (at + 1)..Len(files) : ~SkipsEntry(files[i])}
    IN  IF decoded # {}
        THEN /\ zip' = [zip EXCEPT !.at = CHOOSE i \in decoded :
                                        \A k \in decoded : i <= k,
                                   !.extractedFiles = extractedFiles]
             /\ UNCHANGED <<uploadFiles, toasts>>
        ELSE /\ uploadFiles' = uploadFiles \o extractedFiles
             /\ toasts' = Append(toasts, [title |-> "ZIP Extracted",
                                          variant |-> "default"])
             /\ zip' = [zip EXCEPT !.phase = "done",
                                   !.extractedFiles = extractedFiles,
                                   !.outcome = "extracted"]

\* `await zip.loadAsync(file)` settles
ZipLoadSettles ==
    /\ zip.phase = "extracting"
    /\ zip.at = 0
    /\ IF zip.file.isArchive
       THEN ZipNextEntry(zip.file.files, 0, <<>>)
       ELSE ZipCatch
    /\ UNCHANGED <<drop, reads>>
    /\ UNCHANGED <<storageVars, requestVars, storageCall, uploadMutation>>

\* `await zipEntry.async('arraybuffer')` of the current entry settles
ZipEntrySettles ==
    /\ zip.phase = "extracting"
    /\ zip.at > 0
    /\ LET zipEntry == zip.file.files[zip.at]
           extractedFile == NativeFile(zipEntry.name, <<>>)
       IN  IF zipEntry.decodes
           THEN ZipNextEntry(zip.file.files, zip.at,
                    Append(zip.extractedFiles,
                           [file |-> extractedFile, path |-> zipEntry.relativePath,
                            progress |-> 0]))
           ELSE ZipCatch
    /\ UNCHANGED <<drop, reads>>
    /\ UNCHANGED <<storageVars, requestVars, storageCall, uploadMutation>>

\* ---------------------------------------------------------- submission
\* the selectedBranch prop of the panel
SelectedBranches == {"main", "dev"}

\* `Upload ${files.length} file${files.length > 1 ? 's' : ''}`
UploadMessages ==
    <<"Upload 1 file", "Upload 2 files", "Upload 3 files", "Upload 4 files",
      "Upload 5 files", "Upload 6 files">>
UploadMessage(n) == UploadMessages[n]

\* FileReader.readAsDataURL(file) ends with onload or with onerror
ReadOutcomes == {"load", "error"}

\* reader.result, split at its comma: the data: prefix and the base64 text
SplitDataUrl(file) == <<"data:application/octet-stream;base64", <<81, 85>>>>

\* handleUpload: the click on "Push to Repository", which is disabled while
\* the queue is empty or the mutation is pending; mutate(uploadFiles) runs
\* mutationFn up to its first `await fileToBase64`
HandleUpload ==
    /\ uploadFiles # <<>>
    /\ uploadMutation.status # "pending"
    /\ Len(toasts) < MaxNotices
    /\ \E selectedBranch \in SelectedBranches :
          uploadMutation' = [status |-> "pending", step |-> "fileToBase64",
                             files |-> uploadFiles, branch |-> selectedBranch,
                             at |-> 1, filePayloads |-> <<>>]
    /\ UNCHANGED <<uploadFiles, toasts, drop, reads, zip>>
    /\ UNCHANGED <<storageVars, requestVars, storageCall>>

\* onError of the mutation
OnError(message) ==
    /\ toasts' = Append(toasts, [title |-> "Upload failed", description |-> message,
                                 variant |-> "destructive"])
    /\ uploadMutation' = [uploadMutation EXCEPT !.status = "error", !.step = "none"]

\* onSuccess of the mutation
OnSuccess ==
    /\ toasts' = Append(toasts, [title |-> "Success",
                                 description |-> "Files uploaded successfully!",
                                 variant |-> "default"])
    /\ uploadFiles' = <<>>
    /\ uploadMutation' = [uploadMutation EXCEPT !.status = "success", !.step = "none"]

\* `await fileToBase64(uploadFile.file)` settles for the current file: the
\* payload is pushed and every queued file of that path gets progress 50;
\* after the last file apiRequest is called
FileToBase64Settles ==
    /\ uploadMutation.step = "fileToBase64"
    /\ \E out \in ReadOutcomes :
          LET uploadFile == uploadMutation.files[uploadMutation.at]
              content == SplitDataUrl(uploadFile.file)
          IN  IF out = "error"
              THEN /\ OnError(undefined)
                   /\ UNCHANGED uploadFiles
              ELSE /\ uploadFiles' = [i \in DOMAIN uploadFiles |->
                          IF uploadFiles[i].path = uploadFile.path
                          THEN [uploadFiles[i] EXCEPT !.progress = 50]
                          ELSE uploadFiles[i]]
                   /\ uploadMutation' =
                          [uploadMutation EXCEPT
                              !.filePayloads = Append(@, [path |-> uploadFile.path,
                                                          content |-> content[2]]),
                              !.at = @ + 1,
                              !.step = IF uploadMutation.at < Len(uploadMutation.files)
                                       THEN "fileToBase64" ELSE "apiRequest"]
                   /\ UNCHANGED toasts
    /\ UNCHANGED <<drop, reads, zip>>
    /\ UNCHANGED <<storageVars, requestVars, storageCall>>

\* the POST of apiRequest reaches the server, which handles it in slot r
UploadRequestArrives(r) ==
    /\ uploadMutation.step = "apiRequest"
    /\ pc[r] = "idle"
    /\ \E userId \in SessionUserIds, lookup \in StorageOutcomes :
          ReceiveBatch(r, userId,
                       [isArray |-> TRUE, items |-> uploadMutation.filePayloads],
                       uploadMutation.branch,
                       UploadMessage(Len(uploadMutation.files)), lookup)
    /\ uploadMutation' = [uploadMutation EXCEPT !.step = "response"]
    /\ UNCHANGED <<storageVars, held, storageCall>>
    /\ UNCHANGED <<uploadFiles, toasts, drop, reads, zip>>

\* the POST of apiRequest never reaches the server: fetch rejects
UploadRequestFails ==
    /\ uploadMutation.step = "apiRequest"
    /\ OnError("Failed to fetch")
    /\ UNCHANGED <<uploadFiles, drop, reads, zip>>
    /\ UNCHANGED <<storageVars, requestVars, storageCall>>

\* apiRequest rejects for a response whose status is not a success
ApiRequestRejects(res) == res.status \notin 200..299

\* the response of slot r reaches the panel: `await apiRequest(...)` settles
\* and onError runs, or it and `await response.json()` settle and onSuccess
\* runs, which empties the queue whose files had just got progress 100
UploadResponseArrives(r) ==
    /\ uploadMutation.step = "response"
    /\ pc[r] = "done"
    /\ IF ApiRequestRejects(response[r])
       THEN /\ OnError(<<response[r].status, response[r].error>>)
            /\ UNCHANGED uploadFiles
       ELSE OnSuccess
    /\ ResetSlot(r)
    /\ UNCHANGED <<drop, reads, zip>>
    /\ UNCHANGED <<storageVars, storageCall>>

\* every route
Next ==
    \E r \in Requests :
        \/ UploadBatch(r)
        \/ BatchFetchSettles(r)
        \/ BatchInsertSettles(r)
        \/ PutContents(r)
        \/ PutFetchSettles(r)
        \/ PutInsertSettles(r)
        \/ DeleteContents(r)
        \/ DeleteFetchSettles(r)
        \/ DeleteInsertSettles(r)
        \/ GetActivity(r)
        \/ GetBranches(r)
        \/ BranchesFetchSettles(r)
        \/ GetContents(r)
        \/ ContentsFetchSettles(r)
        \/ GetRepositories(r)
        \/ ReposFetchSettles(r)
        \/ ReposRead(r)
        \/ ReposCreate(r)
        \/ Reset(r)

Spec == Init /\ [][Next]_vars

\* batch uploads only
NextBatch ==
    \E r \in Requests :
        \/ UploadBatch(r)
        \/ BatchFetchSettles(r)
        \/ BatchInsertSettles(r)
        \/ Reset(r)

SpecBatch == Init /\ [][NextBatch]_vars

\* single-file writes and deletes only
NextSingle ==
    \E r \in Requests :
        \/ PutContents(r)
        \/ PutFetchSettles(r)
        \/ PutInsertSettles(r)
        \/ DeleteContents(r)
        \/ DeleteFetchSettles(r)
        \/ DeleteInsertSettles(r)
        \/ Reset(r)

SpecSingle == Init /\ [][NextSingle]_vars

\* two clients, each with one write request, a batch or a single file, whose
\* handlers interleave at their awaits
NextInterleaved ==
    \E r \in Requests :
        \/ UserUploadBatch(r)
        \/ BatchFetchSettles(r)
        \/ BatchInsertSettles(r)
        \/ UserPutContents(r)
        \/ PutFetchSettles(r)
        \/ PutInsertSettles(r)

\* a write the store has answered and an insert the database has answered
\* resume the handler that awaits them
SpecInterleaved ==
    /\ InitPair
    /\ [][NextInterleaved]_vars
    /\ \A r \in Requests : /\ WF_vars(BatchFetchSettles(r))
                            /\ WF_vars(BatchInsertSettles(r))
                            /\ WF_vars(PutFetchSettles(r))
                            /\ WF_vars(PutInsertSettles(r))

\* batch uploads against a store that may leave a write unanswered; a write
\* the store answers and an insert the database answers reach the handler
NextTimeout ==
    \E r \in Requests :
        \/ UploadBatch(r)
        \/ BatchFetchSettles(r)
        \/ BatchFetchNeverSettles(r)
        \/ BatchInsertSettles(r)
        \/ Reset(r)

SpecTimeout ==
    /\ Init
    /\ [][NextTimeout]_vars
    /\ \A r \in Requests : /\ WF_vars(BatchFetchSettles(r))
                            /\ WF_vars(BatchInsertSettles(r))

\* two GET /api/repositories requests whose handlers interleave at their
\* awaits
NextRepositories ==
    \E r \in Requests :
        \/ GetRepositories(r)
        \/ ReposFetchSettles(r)
        \/ ReposRead(r)
        \/ ReposCreate(r)

SpecRepositories == InitPair /\ [][NextRepositories]_vars

\* the ledger methods of the storage object, called in any order
NextLedger ==
    \/ CallCreateFileOperation
    \/ CallUpdateFileOperationStatus
    \/ CallGetUserFileOperations

SpecLedger == Init /\ [][NextLedger]_vars

\* the ledger is filled, then each of NumRequests clients asks for its activity
NextActivity ==
    \/ CallCreateFileOperation
    \/ CallUpdateFileOperationStatus
    \/ \E r \in Requests : GetActivity(r)

SpecActivity == InitConcurrent /\ [][NextActivity]_vars

\* the ways files get into the upload queue
NextSelect ==
    \/ SelectFiles
    \/ SelectFolder
    \/ HandleDrop
    \/ \E q \in Directories :
        \/ ReadEntries(q)
        \/ \E i \in DOMAIN Folders[q] : FileRead(q, i)
    \/ DropEnumerated

SpecSelect == Init /\ [][NextSelect]_vars

\* a drop whose directory reads all call back: every readEntries and every
\* file() request delivers its callback, and the `then` of Promise.all runs
\* once every promise has resolved
NextDrop ==
    \/ HandleDrop
    \/ \E q \in Directories :
        \/ ReadEntries(q)
        \/ \E i \in DOMAIN Folders[q] : FileRead(q, i)
    \/ DropEnumerated

SpecDrop ==
    /\ Init
    /\ [][NextDrop]_vars
    /\ \A q \in Directories :
          /\ WF_vars(ReadEntries(q))
          /\ \A i \in DOMAIN Folders[q] : WF_vars(FileRead(q, i))
    /\ WF_vars(DropEnumerated)

\* the archive input, next to the file input that fills the queue
NextZip ==
    \/ SelectFiles
    \/ SetExtractZip
    \/ HandleZipUpload
    \/ ZipLoadSettles
    \/ ZipEntrySettles

SpecZip == Init /\ [][NextZip]_vars

\* the panel submits its queue to the batch route while files can still be
\* selected
NextUpload ==
    \/ SelectFiles
    \/ HandleUpload
    \/ FileToBase64Settles
    \/ UploadRequestFails
    \/ \E r \in Requests :
        \/ UploadRequestArrives(r)
        \/ BatchFetchSettles(r)
        \/ BatchInsertSettles(r)
        \/ UploadResponseArrives(r)

SpecUpload == Init /\ [][NextUpload]_vars

\* =================================================================
\* Properties
\* =================================================================
BatchItems(r) == req[r].files.items

\* request r is a batch that got its aggregate response
BatchDone(r) ==
    /\ pc[r] = "done"
    /\ req[r].route = "upload-batch"
    /\ response[r].status = 200

\* positions of the history of r that hold event ev of file i
EventsOf(r, ev, i) ==
    {k \in 1..Len(trace[r]) : trace[r][k].ev = ev /\ trace[r][k].file = i}

Happened(r, ev, i) == EventsOf(r, ev, i) # {}

\* ledger rows that carry the id createFileOperation gave r for file i
RowsOf(r, i) ==
    {k \in 1..Len(fileOperations) :
        \E e \in EventsOf(r, "insert", i) : fileOperations[k].id = trace[r][e].id}

\* C1: the aggregate of every accepted batch satisfies
\* uploaded + failed = number of files in the request
C1_UploadedPlusFailed ==
    \A r \in Requests :
        BatchDone(r) =>
            response[r].uploaded + response[r].failed = Len(BatchItems(r))

\* C2: every attempted file of a batch gets exactly one ledger record, with
\* status completed when its write succeeded and failed when it did not
C2_OneRecordPerAttempt ==
    \A r \in Requests :
        BatchDone(r) =>
            \A i \in 1..Len(BatchItems(r)) :
                /\ Cardinality(RowsOf(r, i)) = 1
                /\ \A k \in RowsOf(r, i) :
                        fileOperations[k].status =
                            IF Happened(r, "accepted", i) THEN "completed" ELSE "failed"

\* C3: every payload of a batch is attempted exactly once and in input
\* order; a failed file never keeps a later file from being written, and a
\* batch that entered its loop ends only with the aggregate of all files
C3_EveryPayloadAttempted ==
    \A r \in Requests :
        (req[r].route = "upload-batch" /\ issued[r] # <<>>) =>
            /\ Len(issued[r]) = idx[r]
            /\ idx[r] <= Len(BatchItems(r))
            /\ \A i \in 1..idx[r] :
                    /\ issued[r][i].path = BatchItems(r)[i].path
                    /\ issued[r][i].content = BatchItems(r)[i].content
                    /\ Cardinality(EventsOf(r, "write", i)) = 1
            /\ \A i, j \in 1..idx[r] :
                    i < j => \A a \in EventsOf(r, "write", i), b \in EventsOf(r, "write", j) :
                                a < b
            /\ pc[r] \in {"batch_fetch", "batch_insert", "done"}
            /\ pc[r] = "done" =>
                    /\ response[r].status = 200
                    /\ idx[r] = Len(BatchItems(r))

\* a two-file batch is over, its first write threw and its second was accepted
C3_Witness ==
    \E r \in Requests :
        /\ BatchDone(r)
        /\ Len(BatchItems(r)) = 2
        /\ Happened(r, "threw", 1)
        /\ Happened(r, "accepted", 2)
        /\ Len(issued[r]) = 2

\* C4: success is true iff failed = 0; uploaded counts the payloads whose
\* write the store accepted, failed those whose write was rejected or threw
C4_AggregateCounts ==
    \A r \in Requests :
        BatchDone(r) =>
            /\ response[r].success = (response[r].failed = 0)
            /\ response[r].uploaded =
                    Cardinality({i \in 1..Len(BatchItems(r)) : Happened(r, "accepted", i)})
            /\ response[r].failed =
                    Cardinality({i \in 1..Len(BatchItems(r)) :
                                    Happened(r, "rejected", i) \/ Happened(r, "threw", i)})

\* what C5 promises of a batch r of n files
AllRecordedAsCompleted(r) ==
    /\ \A i \in 1..Len(BatchItems(r)) :
            /\ Cardinality(RowsOf(r, i)) = 1
            /\ \A k \in RowsOf(r, i) :
                    /\ fileOperations[k].userId = req[r].userId
                    /\ fileOperations[k].operation = "upload"
                    /\ fileOperations[k].filePath = BatchItems(r)[i].path
                    /\ fileOperations[k].branch =
                            IF req[r].branch = undefined THEN "main" ELSE req[r].branch
                    /\ fileOperations[k].status = "completed"
    /\ \A i, j \in 1..Len(BatchItems(r)) : i # j => RowsOf(r, i) \cap RowsOf(r, j) = {}
    /\ response[r].success = TRUE
    /\ response[r].uploaded = Len(BatchItems(r))
    /\ response[r].failed = 0

C6_LedgerInInputOrder ==
    \A r \in Requests :
        req[r].route = "upload-batch" =>
            /\ \A i, j \in 1..Len(BatchItems(r)) :
                    i < j =>
                        \A a \in RowsOf(r, i), b \in RowsOf(r, j) :
                            /\ fileOperations[a].id < fileOperations[b].id
                            /\ a < b
                            /\ fileOperations[a].createdAt <= fileOperations[b].createdAt
            /\ \A i \in 1..Len(BatchItems(r)) :
                    \A w \in EventsOf(r, "write", i + 1) :
                        /\ Happened(r, "accepted", i) =>
                                \E e \in EventsOf(r, "insert", i)
                                            \cup EventsOf(r, "insert_failed", i) : e < w
                        /\ \A e \in EventsOf(r, "insert", i) : e < w

\* a two-file batch is over and both files got their record
C6_Witness ==
    \E r \in Requests :
        /\ BatchDone(r)
        /\ Len(BatchItems(r)) = 2
        /\ RowsOf(r, 1) # {}
        /\ RowsOf(r, 2) # {}

\* a single-file write or delete whose remote call was issued and is over
SingleDone(r) ==
    /\ pc[r] = "done"
    /\ req[r].route \in {"put", "delete"}
    /\ issued[r] # <<>>

\* C7: every single-file PUT or DELETE that reached the store appends exactly
\* one ledger record, completed iff the store answered with a success and
\* failed otherwise, a call that throws included
C7_SingleFileAlwaysLogged ==
    \A r \in Requests :
        SingleDone(r) =>
            /\ Cardinality(RowsOf(r, 1)) = 1
            /\ \A k \in RowsOf(r, 1) :
                    fileOperations[k].status =
                        IF Happened(r, "accepted", 1) THEN "completed" ELSE "failed"

\* C8: when the store answers a single-file write or delete with a
\* non-success response, the caller gets a failure, never a success response
C8_StoreErrorSurfaced ==
    \A r \in Requests :
        (SingleDone(r) /\ Happened(r, "rejected", 1)) => response[r].status >= 400

AuthenticatedRoutes ==
    {"repositories", "branches", "contents", "put", "delete", "upload-batch", "activity"}

\* request r has just been received
Received(r) == pc[r] = "idle" /\ pc'[r] # "idle"

\* C9: on each of the seven routes a request whose session carries no user
\* id is answered 401 "Not authenticated" at once, with no remote call issued
\* and nothing written to the persistence layer
C9_UnauthenticatedRejected ==
    /\ [](\A r \in Requests :
            (req[r].route \in AuthenticatedRoutes /\ req[r].userId = 0) =>
                /\ pc[r] = "done"
                /\ response[r] = [status |-> 401, error |-> "Not authenticated"]
                /\ issued[r] = <<>>
                /\ trace[r] = <<>>)
    /\ [][\A r \in Requests :
            (Received(r) /\ req'[r].userId = 0) =>
                /\ pc'[r] = "done"
                /\ UNCHANGED storageVars]_vars

\* an unauthenticated request has been answered while the ledger holds a row
C9_Witness ==
    \E r \in Requests :
        /\ pc[r] = "done"
        /\ req[r].route \in AuthenticatedRoutes
        /\ req[r].userId = 0
        /\ response[r].status = 401
        /\ fileOperations # <<>>

\* the files field of a batch request is not an array or is empty
BadFiles(request) ==
    /\ request.route = "upload-batch"
    /\ ~request.files.isArray \/ Len(request.files.items) = 0

\* C10: a batch request whose files field is not an array or is empty is
\* rejected, with 400 "Files array is required" once it is past the session
\* check and the user lookup, before any remote write is issued and without
\* anything appended to the ledger
C10_InvalidFilesRejected ==
    /\ [](\A r \in Requests :
            BadFiles(req[r]) =>
                /\ pc[r] = "done"
                /\ response[r].status \in {400, 401, 404, 500}
                /\ (req[r].userId \in users /\ req[r].lookup = "resolves") =>
                        response[r] = [status |-> 400, error |-> "Files array is required"]
                /\ issued[r] = <<>>
                /\ trace[r] = <<>>)
    /\ [][\A r \in Requests :
            (Received(r) /\ BadFiles(req'[r])) => UNCHANGED storageVars]_vars

\* an authenticated batch request with an empty files array has been answered
C10_Witness ==
    \E r \in Requests :
        /\ pc[r] = "done"
        /\ BadFiles(req[r])
        /\ req[r].files.isArray
        /\ req[r].userId \in users
        /\ response[r].status = 400

\* ------------------------------------------------------------ C11
\* a getUserFileOperations call that has returned
Queried == storageCall.method = "getUserFileOperations"

\* C11: query(userId, limit), on either storage class and with the limit
\* defaulting to 10, returns only rows of the given user, at most limit of
\* them, each a stored row listed once, sorted by createdAt descending, and
\* leaves out no row of that user newer than a row it returns
C11_QueryNewestFirst ==
    Queried =>
        LET out == storageCall.returned
            limit == LimitOrDefault(storageCall.limit)
        IN  /\ \A i \in DOMAIN out : out[i].userId = storageCall.userId
            /\ Len(out) <= limit
            /\ \A i \in DOMAIN out : \E k \in DOMAIN fileOperations :
                                         fileOperations[k] = out[i]
            /\ \A i, j \in DOMAIN out : i < j =>
                    /\ out[i].createdAt >= out[j].createdAt
                    /\ out[i].id # out[j].id
            /\ \A k \in DOMAIN fileOperations :
                    /\ fileOperations[k].userId = storageCall.userId
                    /\ \A i \in DOMAIN out : out[i] # fileOperations[k]
                    => \A i \in DOMAIN out :
                           fileOperations[k].createdAt <= out[i].createdAt

\* a query with limit 1 has returned the newer of a user's two rows, the one
\* inserted last, and left the older one out
C11_Witness ==
    /\ Queried
    /\ storageCall.limit = <<1>>
    /\ Len(fileOperations) = 2
    /\ fileOperations[1].userId = storageCall.userId
    /\ fileOperations[2].userId = storageCall.userId
    /\ fileOperations[1].createdAt < fileOperations[2].createdAt
    /\ storageCall.returned = <<fileOperations[2]>>

\* ------------------------------------------------------------ C12
\* request r has been answered with the activity list of userId
ActivityAnswered(r, userId) ==
    /\ pc[r] = "done"
    /\ req[r].route = "activity"
    /\ req[r].userId = userId
    /\ response[r].status = 200

\* C12: two GET /api/activity queries of one user with no ledger append or
\* status update between them are answered with the same list in the same
\* order (in SpecActivity the ledger cannot change once a query is answered)
C12_ActivityIdempotent ==
    \A r1, r2 \in Requests : \A userId \in users :
        ActivityAnswered(r1, userId) /\ ActivityAnswered(r2, userId)
            => response[r1].operations = response[r2].operations

\* ------------------------------------------------------------ C13
\* C13: the status of a stored row only ever changes from pending to
\* completed or from pending to failed
C13_StatusOnlyLeavesPending ==
    [][\A i \in DOMAIN fileOperations :
          i \in DOMAIN fileOperations'
              /\ fileOperations'[i].status # fileOperations[i].status
          => /\ fileOperations[i].status = "pending"
             /\ fileOperations'[i].status \in {"completed", "failed"}]_vars

\* ------------------------------------------------------------ C14
\* C14: every stored row stays in the ledger with its id, userId,
\* repositoryId, operation, filePath, branch, metadata and createdAt
\* unchanged, whatever storage operation is performed
C14_AppendOnly ==
    [][\A i \in DOMAIN fileOperations :
          /\ i \in DOMAIN fileOperations'
          /\ fileOperations'[i] = [fileOperations[i] EXCEPT
                                      !.status = fileOperations'[i].status]]_vars

\* the status of one of two stored rows has been rewritten
C14_Witness ==
    /\ storageCall.method = "updateFileOperationStatus"
    /\ storageCall.returned # <<>>
    /\ Len(fileOperations) = 2

\* ------------------------------------------------------------ C15
\* C15: createFileOperation stores the row with status "pending" when the
\* caller gives none and with the given status otherwise, under an id that no
\* other row has, and returns that row
C15_AppendDefaultsToPending ==
    storageCall.method = "createFileOperation" =>
        LET given == storageCall.insertOperation.status
            row == storageCall.returned
            n == Len(fileOperations)
        IN  /\ row.status = IF given = undefined THEN "pending" ELSE given
            /\ n > 0
            /\ fileOperations[n] = row
            /\ \A i \in 1..(n - 1) : fileOperations[i].id # row.id

\* a second row has been appended without a status and stored as pending
C15_Witness ==
    /\ storageCall.method = "createFileOperation"
    /\ storageCall.insertOperation.status = undefined
    /\ storageCall.returned.status = "pending"
    /\ Len(fileOperations) = 2

\* ------------------------------------------------------------ C16
\* the files of the tree below directory q, each as the names that lead to
\* it from the dropped or picked folder
RECURSIVE FilesBelow(_)
FilesBelow(q) ==
    UNION {IF Folders[q][i].isFile
           THEN {q \o <<Folders[q][i].name>>}
           ELSE FilesBelow(q \o <<Folders[q][i].name>>) : i \in DOMAIN Folders[q]}

\* the names, with a "/" between each two
RECURSIVE Slashed(_)
Slashed(names) ==
    IF Len(names) <= 1 THEN names
    ELSE <<names[1], "/">> \o Slashed(Tail(names))

\* directory p lies in the tree of directory q
Within(p, q) == Len(p) >= Len(q) /\ SubSeq(p, 1, Len(q)) = q

\* list holds every file of the tree of q exactly once and nothing else
HoldsTreeOnce(list, q) ==
    /\ Len(list) = Cardinality(FilesBelow(q))
    /\ \A f \in FilesBelow(q) :
          Cardinality({i \in DOMAIN list :
              /\ list[i].name = f[Len(f)]
              /\ list[i].webkitRelativePath = Slashed(Tail(f))}) = 1

\* the files dropped outside any directory, and the directories dropped
DroppedPlainFiles(items) ==
    {i \in DOMAIN items : items[i].kind = "file" /\ items[i].isFile}
DroppedFolders(items) ==
    {<<items[i].name>> : i \in {k \in DOMAIN items :
                                   items[k].kind = "file" /\ ~items[k].isFile}}

\* C16: whatever the order of the readEntries, file() and sub-directory
\* callbacks, the list a readDirectory call hands to its callback holds
\* every file of its tree exactly once and the call completes only after
\* every read below it has; and the step that ends the enumeration of a
\* drop appends to the upload queue exactly the dropped files, each file of
\* each dropped tree once, with every read of those trees completed
C16_TreeEnumeratedOnce ==
    /\ [](\A q \in Directories : reads[q].phase = "done" =>
            /\ HoldsTreeOnce(reads[q].files, q)
            /\ \A p \in Directories : Within(p, q) => reads[p].phase = "done")
    /\ [][drop.phase = "reading" /\ uploadFiles' # uploadFiles =>
            LET roots == DroppedFolders(drop.items)
                added == SubSeq(uploadFiles', Len(uploadFiles) + 1, Len(uploadFiles'))
                InTree(q) == {i \in DOMAIN added :
                                 \E f \in FilesBelow(q) :
                                     added[i].path = Slashed(Tail(f))}
            IN  /\ drop'.phase = "done"
                /\ SubSeq(uploadFiles', 1, Len(uploadFiles)) = uploadFiles
                /\ \A q \in Directories :
                      (\E root \in roots : Within(q, root)) => reads[q].phase = "done"
                /\ \A root \in roots :
                      HoldsTreeOnce([i \in 1..Cardinality(InTree(root)) |->
                                        LET k == CHOOSE k \in InTree(root) :
                                                Cardinality({j \in InTree(root) : j <= k}) = i
                                        IN  added[k].file], root)
                /\ Len(added) = Cardinality(DroppedPlainFiles(drop.items))
                        + Cardinality(UNION {FilesBelow(root) : root \in roots})]_vars

\* two dropped folders have been enumerated and queued, the file two levels
\* down having called back before the file one level down
C16_Witness ==
    /\ drop.phase = "done"
    /\ drop.filePromises = {<<"lib">>, <<"proj">>}
    /\ Len(uploadFiles) = 4
    /\ \E i, j \in DOMAIN uploadFiles :
          /\ i < j
          /\ uploadFiles[i].file.name = "d.txt"
          /\ uploadFiles[j].file.name = "b.txt"

\* ------------------------------------------------------------ C17
\* the path the Path Normalizer is to give a file of that name: for a file
\* of a folder the names of the directories below the chosen folder and the
\* file's name with "/" between them, for any other file its name
ExpectedPath(name) ==
    LET InFolders == {f \in UNION {FilesBelow(q) : q \in RootFolders} :
                         f[Len(f)] = name}
    IN  IF InFolders = {} THEN <<name>>
        ELSE Slashed(Tail(CHOOSE f \in InFolders : TRUE))

\* C17: every queued file of a folder has as its path the names of the
\* directories below the chosen root and the file name joined with "/",
\* with no leading and no doubled slash
C17_PathBelowChosenRoot ==
    \A i \in DOMAIN uploadFiles :
        LET path == uploadFiles[i].path
        IN  /\ path = ExpectedPath(uploadFiles[i].file.name)
            /\ path[1] # "/"
            /\ \A k \in 1..(Len(path) - 1) : ~(path[k] = "/" /\ path[k + 1] = "/")

\* ------------------------------------------------------------ C18
\* the queue entry a flat selection is to make of a file
FlatPendingFile(file) == [file |-> file, path |-> <<file.name>>, progress |-> 0]

\* C18: a flat selection appends one entry per selected file, in selection
\* order, with the file's name as path and progress 0, behind the unchanged
\* queue; a null or empty selection, and a drop without file entries, leave
\* queue and notices as they were
C18_FlatSelectionAppends ==
    /\ [][SelectFiles =>
            \E files \in FileListInputs :
                uploadFiles' = uploadFiles \o
                    [i \in DOMAIN files.items |-> FlatPendingFile(files.items[i])]]_vars
    /\ [][HandleDrop /\ DroppedPlainFiles(drop'.items) = {}
                     /\ DroppedFolders(drop'.items) = {}
              => UNCHANGED <<uploadFiles, toasts>>]_vars

\* two files were selected behind a queue that already held one
C18_Witness ==
    /\ Len(uploadFiles) = 3
    /\ uploadFiles[1] = FlatPendingFile(NativeFile("n.txt", <<>>))
    /\ uploadFiles[2] = FlatPendingFile(NativeFile("n.txt", <<>>))
    /\ uploadFiles[3] = FlatPendingFile(NativeFile("m.txt", <<>>))
    /\ drop.phase = "none"

\* ------------------------------------------------------------ C19
\* the entries of the archive that are not directory markers, in order
FileEntries(files) ==
    LET NotDir(zipEntry) == ~zipEntry.dir
    IN  SelectSeq(files, NotDir)

\* C19: an extraction that completes appends exactly one pair per entry
\* that is not a directory, none for a directory entry, each with the
\* entry's path as stored
C19_OnePairPerFileEntry ==
    [][zip.phase = "extracting" /\ zip'.phase = "done" /\ zip'.outcome = "extracted" =>
          LET entries == FileEntries(zip.file.files)
              added == SubSeq(uploadFiles', Len(uploadFiles) + 1, Len(uploadFiles'))
          IN  /\ SubSeq(uploadFiles', 1, Len(uploadFiles)) = uploadFiles
              /\ Len(added) = Len(entries)
              /\ \A i \in DOMAIN entries :
                    /\ added[i].path = entries[i].relativePath
                    /\ added[i].file.name = entries[i].name]_vars

\* the archive img.png, notes.txt, folder/ has been extracted into the two
\* pairs img.png and notes.txt
C19_Witness ==
    /\ zip.phase = "done"
    /\ zip.outcome = "extracted"
    /\ Len(zip.file.files) = 3
    /\ zip.file.files[3].dir
    /\ Len(uploadFiles) = 2
    /\ uploadFiles[1].path = <<"img.png">>
    /\ uploadFiles[2].path = <<"notes.txt">>

\* ------------------------------------------------------------ C20
\* C20: an extraction starts without an error notice and without touching
\* the queue, leaves queue and notices alone while it runs, and when it
\* fails, at the load or at any entry, ends (the handler returning) with the
\* queue still unchanged and exactly one error notice raised
C20_FailedExtractionAddsNothing ==
    /\ [][zip.phase # "extracting" /\ zip'.phase = "extracting" =>
              /\ uploadFiles' = uploadFiles
              /\ \A i \in DOMAIN toasts' :
                     i > Len(toasts) => toasts'[i].variant # "destructive"]_vars
    /\ [][zip.phase = "extracting" =>
              /\ zip'.phase \in {"extracting", "done"}
              /\ zip'.phase = "extracting" =>
                     uploadFiles' = uploadFiles /\ toasts' = toasts
              /\ zip'.phase = "done" /\ zip'.outcome = "failed" =>
                     /\ uploadFiles' = uploadFiles
                     /\ Len(toasts') = Len(toasts) + 1
                     /\ toasts'[Len(toasts')].variant = "destructive"
                     /\ \A i \in DOMAIN toasts : toasts'[i] = toasts[i]]_vars

\* an extraction failed at its second entry, after the first was decoded,
\* with a file already in the queue
C20_Witness ==
    /\ zip.phase = "done"
    /\ zip.outcome = "failed"
    /\ Len(zip.extractedFiles) = 1
    /\ Len(uploadFiles) = 1

\* ------------------------------------------------------------ C21
\* C21: the archive input starts an extraction only when the extract option
\* is on and the name of the file ends with .zip, and then queues nothing;
\* with the option off or another name it starts no extraction and appends
\* the file as one entry whose path is its name; an extraction never
\* appends the archive itself
C21_ExpandedOrQueuedWhole ==
    /\ [][HandleZipUpload /\ zip'.name # "" =>
              LET expand == zip.extractZip /\ zip'.name \in ZipNames
                  whole == [file |-> NativeFile(zip'.name, <<>>),
                            path |-> <<zip'.name>>, progress |-> 0]
              IN  IF expand
                  THEN zip'.phase = "extracting" /\ uploadFiles' = uploadFiles
                  ELSE /\ zip'.phase # "extracting"
                       /\ uploadFiles' = Append(uploadFiles, whole)]_vars
    /\ [][zip.phase = "extracting" =>
              \A i \in DOMAIN uploadFiles' :
                  i > Len(uploadFiles) => uploadFiles'[i].file.name # zip.name]_vars

\* site.zip was queued as one file while the option was off, and then, the
\* option on again, extracted into its one entry
C21_Witness ==
    /\ zip.extractZip
    /\ zip.name = "site.zip"
    /\ zip.outcome = "extracted"
    /\ Len(uploadFiles) = 2
    /\ uploadFiles[1].path = <<"site.zip">>
    /\ uploadFiles[2].path = <<"folder", "/", "in.txt">>

\* ------------------------------------------------------------ C22
\* the step in which the panel takes the response of slot r to its batch
TakesResponse(r) ==
    /\ uploadMutation.step = "response"
    /\ uploadMutation'.step # "response"
    /\ pc[r] = "done"

\* C22: when the batch response the panel takes reports a failed file
\* (failed > 0, success false), the panel raises a failure notice and raises
\* no notice of success
C22_FailureNoticeRaised ==
    [][\A r \in Requests :
          (TakesResponse(r) /\ BatchDone(r) /\ response[r].failed > 0) =>
              /\ ~response[r].success
              /\ Len(toasts') = Len(toasts) + 1
              /\ toasts'[Len(toasts')].variant = "destructive"
              /\ toasts'[Len(toasts')].title # "Success"
              /\ uploadMutation'.status = "error"]_vars

\* ------------------------------------------------------------ C23
\* the same pending file, whatever its progress
SamePendingFile(a, b) == a.file = b.file /\ a.path = b.path

\* the step in which the mutation settles
MutationSettles == uploadMutation.status = "pending" /\ uploadMutation'.status # "pending"

\* the paths the response taken in this step reports as uploaded
UploadedPaths ==
    UNION {IF TakesResponse(r) /\ BatchDone(r)
           THEN {response[r].results[k].path : k \in DOMAIN response[r].results}
           ELSE {} : r \in Requests}

\* C23: when a submission settles, every file of it that the batch result
\* does not report as uploaded (its write failed, or the request failed as a
\* whole) is still in the queue
C23_FailedFileStaysQueued ==
    [][MutationSettles =>
          \A i \in DOMAIN uploadMutation.files :
              uploadMutation.files[i].path \notin UploadedPaths =>
                  \E j \in DOMAIN uploadFiles' :
                      SamePendingFile(uploadFiles'[j], uploadMutation.files[i])]_vars

\* ------------------------------------------------------------ C29
\* the queue entries behind those the submission took: files added to the
\* queue while it was in flight
AddedInFlight == {i \in DOMAIN uploadFiles : i > Len(uploadMutation.files)}

\* C29: while a submission is in flight no file leaves the queue, and when
\* it completes every file added meanwhile is still in the queue, as often
\* as it was added
C29_AddedInFlightKept ==
    [][uploadMutation.status = "pending" =>
          /\ ~MutationSettles =>
                /\ Len(uploadFiles') >= Len(uploadFiles)
                /\ \A i \in DOMAIN uploadFiles :
                      SamePendingFile(uploadFiles'[i], uploadFiles[i])
          /\ MutationSettles =>
                \A i \in AddedInFlight :
                    Cardinality({j \in DOMAIN uploadFiles' :
                                    SamePendingFile(uploadFiles'[j], uploadFiles[i])})
                        >= Cardinality({k \in AddedInFlight :
                                    SamePendingFile(uploadFiles[k], uploadFiles[i])})]_vars

\* ------------------------------------------------------------ C24
\* C24: every write the PUT route or the batch route has sent to the store
\* carries the hash the caller supplied for that file, and none (undefined)
\* when the caller supplied none
C24_ShaForwarded ==
    \A r \in Requests :
        /\ (req[r].route = "put" /\ issued[r] # <<>>) =>
                issued[r][1].sha = req[r].sha
        /\ req[r].route = "upload-batch" =>
                \A i \in 1..Len(issued[r]) :
                    issued[r][i].sha = BatchItems(r)[i].sha

\* ------------------------------------------------------------ C25
\* C25: every batch request that has entered its loop eventually gets its
\* aggregate response, also when the store leaves a write unanswered
C25_BatchEventuallyAnswered ==
    \A r \in Requests :
        (req[r].route = "upload-batch" /\ issued[r] # <<>>) ~> BatchDone(r)

\* ------------------------------------------------------------ C26
\* the ledger rows whose id an insert of request r returned
InsertedBy(r) ==
    {k \in DOMAIN fileOperations :
        \E e \in DOMAIN trace[r] :
            trace[r][e].ev = "insert" /\ trace[r][e].id = fileOperations[k].id}

\* C26: a request suspended on a remote write or on a ledger insert can take
\* its next step whatever the other requests are suspended on, and does
\* finish; every insert a request made is one ledger row of its own user,
\* and no two ledger rows share an id
C26_RequestsDoNotBlock ==
    /\ [](\A r \in Requests :
            /\ pc[r] = "batch_fetch" => ENABLED BatchFetchSettles(r)
            /\ pc[r] = "batch_insert" => ENABLED BatchInsertSettles(r)
            /\ pc[r] = "put_fetch" => ENABLED PutFetchSettles(r)
            /\ pc[r] = "put_insert" => ENABLED PutInsertSettles(r)
            /\ Cardinality(InsertedBy(r)) =
                    Cardinality({e \in DOMAIN trace[r] : trace[r][e].ev = "insert"})
            /\ \A k \in InsertedBy(r) : fileOperations[k].userId = req[r].userId)
    /\ [](\A k, l \in DOMAIN fileOperations :
            k # l => fileOperations[k].id # fileOperations[l].id)
    /\ \A r \in Requests :
            (pc[r] \notin {"idle", "off", "done"}) ~> (pc[r] = "done")

\* user 1's batch of two files and user 2's single file are over: the first
\* write of the batch threw, and user 2's record was appended while the batch
\* was suspended on its second write, whose record follows
C26_Witness ==
    /\ BatchDone(1)
    /\ Happened(1, "threw", 1)
    /\ pc[2] = "done"
    /\ req[2].route = "put"
    /\ req[1].userId # req[2].userId
    /\ \E a \in RowsOf(2, 1), b \in RowsOf(1, 2) :
          fileOperations[a].id = 1 /\ fileOperations[b].id = 2

\* ------------------------------------------------------------ C27
\* C27: no two repository records have the same user and the same githubId,
\* and once a GET /api/repositories request is answered with the listing,
\* every listed repository has a record of that user
C27_OneRecordPerRepository ==
    /\ \A k, l \in DOMAIN repositories :
          (/\ k # l
           /\ repositories[k].userId = repositories[l].userId)
              => repositories[k].githubId # repositories[l].githubId
    /\ \A r \in Requests :
          (req[r].route = "repositories" /\ pc[r] = "done" /\ response[r].status = 200) =>
              \A i \in DOMAIN response[r].result :
                  \E k \in DOMAIN repositories :
                      /\ repositories[k].userId = req[r].userId
                      /\ repositories[k].githubId = response[r].result[i].id

\* ------------------------------------------------------------ C28
\* the positions of the input of r whose path list `reported` holds
ReportedFiles(r, reported) ==
    {i \in DOMAIN BatchItems(r) :
        \E k \in DOMAIN reported : reported[k].path = BatchItems(r)[i].path}

\* list `reported` names input files of r, each once, in input order
InInputOrder(r, reported) ==
    \A k \in DOMAIN reported :
        \E i \in DOMAIN BatchItems(r) :
            /\ reported[k].path = BatchItems(r)[i].path
            /\ Cardinality({j \in ReportedFiles(r, reported) : j <= i}) = k

\* C28: in the aggregate of a batch every input file is in exactly one of
\* results and errors, a file is in results only if the store accepted its
\* write, and each list is in input order
C28_ResultsErrorsPartition ==
    \A r \in Requests :
        BatchDone(r) =>
            LET uploaded == ReportedFiles(r, response[r].results)
                failed == ReportedFiles(r, response[r].errors)
            IN  /\ uploaded \cup failed = DOMAIN BatchItems(r)
                /\ uploaded \cap failed = {}
                /\ \A i \in uploaded : Happened(r, "accepted", i)
                /\ InInputOrder(r, response[r].results)
                /\ InInputOrder(r, response[r].errors)

\* ------------------------------------------------------------ C30
\* C30: when every readEntries and file() request delivers its callback,
\* every readDirectory call that has started invokes its completion
\* callback, and never a second time; a directory read waits on a batch
\* exactly while some entry of that batch has not reported, its pending
\* counter being the number of those entries; and a drop that holds
\* directories is eventually enumerated, the step that ends it appending
\* every collected file to the upload queue
C30_CallbackExactlyOnce ==
    /\ [](\A q \in Directories :
            /\ reads[q].callbacks <= 1
            /\ reads[q].callbacks = 1 <=> reads[q].phase = "done"
            /\ reads[q].pending = Cardinality(reads[q].waiting)
            /\ reads[q].phase = "entries" <=> reads[q].pending # 0)
    /\ [][\A q \in Directories :
            reads'[q].callbacks # reads[q].callbacks =>
                \/ reads[q].callbacks = 0 /\ reads'[q].callbacks = 1
                \/ reads'[q] \in {NoRead, StartedRead(reads'[q].path)}]_vars
    /\ \A q \in Directories :
          (reads[q].phase \in {"readEntries", "entries"}) ~> (reads[q].callbacks = 1)
    /\ (drop.phase = "reading") ~> (drop.phase = "done")
    /\ [][drop.phase = "reading" /\ drop'.phase # "reading" =>
            /\ drop'.phase = "done"
            /\ drop.resolved = drop.filePromises
            /\ Len(uploadFiles') = Len(uploadFiles) + Len(drop.droppedFiles)
            /\ \A i \in DOMAIN drop.droppedFiles :
                  uploadFiles'[Len(uploadFiles) + i].file = drop.droppedFiles[i]]_vars

\* the drop of "proj" has been queued, the read of its directory "a" having
\* taken its three entries in more than one batch and called back once, as
\* the reads of the directories below it
C30_Witness ==
    /\ drop.phase = "done"
    /\ drop.filePromises = {<<"proj">>}
    /\ \A q \in Directories : Within(q, <<"proj">>) => reads[q].callbacks = 1
    /\ reads[<<"proj", "a">>].delivered = 3
    /\ reads[<<"proj", "a">>].files[1].name = "d.txt"
    /\ Len(uploadFiles) >= 3

====
